---- MODULE Spec2Model ----
(***************************************************************************)
(* Model of the deep-review tool-use loop of code-sentinel: the sandboxed  *)
(* ToolExecutor (read_file, list_files, search_code, get_structure), the   *)
(* response validator and the three provider loops (OpenAI, Anthropic,     *)
(* Gemini).                                                                *)
(*                                                                         *)
(* Strings that the code inspects character by character (path names) are  *)
(* sequences of one-token strings; a path is a sequence of segments.       *)
(***************************************************************************)
EXTENDS Integers, Sequences, FiniteSets, TLC

\* Record constructors list their fields in the order in which TLC keeps the
\* fields of a record, so that a record is never rearranged after it was built.

VARIABLES
    fs,           \* the file tree the ToolExecutor reads (never written)
    toolCall,     \* last ToolCall handed to ToolExecutor.execute
    toolResult,   \* the ToolResult it returned
    vIn,          \* validateResponse: the parsed object passed in
    vOut,         \* validateResponse: the verdict returned (or NoValue)
    provider,     \* which provider's analyzeWithTools is running
    pc,           \* position of the run inside analyzeWithTools
    iterations,   \* the local counter `iterations`
    invocations,  \* number of model invocations made by the run
    rounds,       \* number of tool-dispatch rounds entered
    messages,     \* the conversation (messages array / chat history)
    response,     \* the model response being processed
    batch,        \* the tool calls the model issues when it asks for tools
    idx,          \* index of the next tool call of the round to execute
    roundResults, \* results collected in the current round, in push order
    outcome,      \* "running", or the terminal outcome of the run
    deadline,     \* the caller's time budget: "open" or "expired"
    allCalls,     \* executeAll: the tool calls handed to it
    pending,      \* executeAll: the indices of the executions still running
    values,       \* executeAll: the array that Promise.all fills
    settled,      \* executeAll: "idle", "pending", "fulfilled" or "rejected"
    cfg,          \* loadConfig: the parsed SentinelConfig (context sections)
    loaded        \* loadConfig: the contextFiles returned (or not yet)

vars == <<fs, toolCall, toolResult, vIn, vOut, provider, pc, iterations,
          invocations, rounds, messages, response, batch, idx, roundResults,
          outcome, deadline, allCalls, pending, values, settled, cfg, loaded>>

explorerVars == <<fs, toolCall, toolResult>>
validatorVars == <<vIn, vOut>>
callerVars == <<deadline>>
allVars == <<allCalls, pending, values, settled>>
loaderVars == <<cfg, loaded>>
loopVars == <<provider, pc, iterations, invocations, rounds, messages,
              response, batch, idx, roundResults, outcome>>

(***************************************************************************)
(* Program constants                                                       *)
(***************************************************************************)
MAX_FILE_SIZE == 512000
MAX_SEARCH_RESULTS == 20
MAX_STRUCTURE_DEPTH == 4
MAX_LIST_RESULTS == 100
MAX_LIST_DEPTH == 3
MAX_MATCHES_PER_FILE == 5
MAX_TOOL_ITERATIONS == 10

SKIP_DIRS == { <<"node_modules">>, <<".git">>, <<"dist">>, <<"build">>,
               <<"coverage">>, <<".next">>, <<"__pycache__">>, <<"venv">> }

(***************************************************************************)
(* Bounds of the model                                                     *)
(***************************************************************************)
TopFiles == 21      \* largest number of files directly in the working dir
BigDirFiles == 101  \* largest number of files in the directory "big"
ChainDepth == 4     \* deepest nesting of the chain a/a/a/... below the root
MaxLines == 6       \* largest number of lines of a generated file

(***************************************************************************)
(* Generic helpers                                                         *)
(***************************************************************************)
NoValue == [t |-> "undefined"]

Min(a, b) == IF a <= b THEN a ELSE b
Max(a, b) == IF a >= b THEN a ELSE b

Last(s) == s[Len(s)]
ButLast(s) == SubSeq(s, 1, Len(s) - 1)

\* String.prototype.startsWith on token sequences
StartsWith(s, prefix) ==
    /\ Len(prefix) <= Len(s)
    /\ SubSeq(s, 1, Len(prefix)) = prefix

\* three-digit decimal name of n, so that name order is numeric order
Pad3(n) == ToString(n \div 100) \o ToString((n \div 10) % 10) \o ToString(n % 10)

(***************************************************************************)
(* Paths (node:path, POSIX).  A path is a sequence of segments, a segment  *)
(* a sequence of tokens; its string form puts "/" before every segment.    *)
(***************************************************************************)
DotDot == <<"..">>
Dot == <<".">>

RECURSIVE NormalizeFrom(_, _)
NormalizeFrom(acc, segs) ==
    IF segs = <<>> THEN acc
    ELSE LET s == Head(segs)
         IN  IF s = DotDot
             THEN NormalizeFrom(IF acc = <<>> THEN acc ELSE ButLast(acc), Tail(segs))
             ELSE IF s = Dot \/ s = <<>>
             THEN NormalizeFrom(acc, Tail(segs))
             ELSE NormalizeFrom(Append(acc, s), Tail(segs))

\* path.join(base, p) for an absolute base: concatenate, then normalize
PathJoin(base, p) == NormalizeFrom(<<>>, base \o p)

\* path.resolve(p) for an absolute p: normalize; symbolic links are not followed
PathResolve(p) == NormalizeFrom(<<>>, p)

RECURSIVE PathStr(_)
PathStr(segs) ==
    IF segs = <<>> THEN <<>>
    ELSE <<"/">> \o Head(segs) \o PathStr(Tail(segs))

\* the string of an absolute path ("/" for the file-system root)
AbsStr(segs) == IF segs = <<>> THEN <<"/">> ELSE PathStr(segs)

\* path.extname: the last token of a name when it is an extension token
Extensions == {".ts", ".md", ".png"}
ExtName(name) ==
    IF Len(name) > 1 /\ Last(name) \in Extensions THEN Last(name) ELSE ""

\* the working directory handed to the ToolExecutor constructor: "/r"
workingDir == << <<"r">> >>

\* true containment: p is the root or a descendant of it, segment by segment
IsWithin(p, root) ==
    /\ Len(root) <= Len(p)
    /\ SubSeq(p, 1, Len(root)) = root

(***************************************************************************)
(* The file tree.  A node is a directory (ordered entries, in readdir      *)
(* order), a regular file or a symbolic link with an absolute target.      *)
(***************************************************************************)
DirNode(entries) == [entries |-> entries, kind |-> "dir"]
LinkNode(target) == [kind |-> "link", target |-> target]
NoNode == [kind |-> "none"]
Entry(name, node) == [name |-> name, node |-> node]

\* the node of the entry called `name`, NoNode when there is none
FindEntry(entries, name) ==
    IF \E i \in 1..Len(entries) : entries[i].name = name
    THEN entries[CHOOSE i \in 1..Len(entries) : entries[i].name = name].node
    ELSE NoNode

\* the node a path names, following symbolic links (links of the generated
\* trees point at directories that hold no link, so the walk is finite)
RECURSIVE Walk(_, _, _)
Walk(tree, node, segs) ==
    IF node.kind = "link" THEN Walk(tree, Walk(tree, tree, node.target), segs)
    ELSE IF segs = <<>> THEN node
    ELSE IF node.kind = "dir"
         THEN Walk(tree, FindEntry(node.entries, Head(segs)), Tail(segs))
         ELSE NoNode

\* fs.statSync / fs.existsSync on an absolute path
Stat(tree, p) == Walk(tree, tree, p)
ExistsSync(tree, p) == Stat(tree, p).kind # "none"

RECURSIVE RealFrom(_, _, _, _)
RealFrom(tree, node, at, segs) ==
    IF node.kind = "link"
    THEN RealFrom(tree, Walk(tree, tree, node.target), node.target, segs)
    ELSE IF segs = <<>> THEN at
    ELSE IF node.kind = "dir"
         THEN RealFrom(tree, FindEntry(node.entries, Head(segs)),
                       Append(at, Head(segs)), Tail(segs))
         ELSE at \o segs

\* fs.realpathSync: the location a normalized path really names
RealPath(tree, p) == RealFrom(tree, tree, <<>>, p)

(***************************************************************************)
(* Generated file trees.  "/" holds the working directory "/r", its        *)
(* sibling "/rx" and "/etc".  shape = [top, big, chain, link, lines].      *)
(***************************************************************************)
RECURSIVE SizeOf(_)
SizeOf(lines) ==
    IF lines = <<>> THEN 0
    ELSE Len(Head(lines)) + (IF Len(lines) > 1 THEN 1 ELSE 0) + SizeOf(Tail(lines))

\* a regular file of one-byte characters holding the given lines
TextFile(lines) == [kind |-> "file", lines |-> lines,
                    size |-> SizeOf(lines), chars |-> SizeOf(lines)]

\* a file of `chars` UTF-16 units stored in `size` bytes, content not modelled
BulkFile(size, chars) == [kind |-> "file", lines |-> <<>>, size |-> size,
                          chars |-> chars]

SecretLines == << <<"x">> >>

\* by how many bytes the large files of the tree exceed MAX_FILE_SIZE
OverSize == 88000

RECURSIVE ChainDir(_, _)
ChainDir(depth, lines) ==
    DirNode((IF depth > 1 THEN << Entry(<<"a">>, ChainDir(depth - 1, lines)) >>
                          ELSE <<>>)
            \o << Entry(<<"m", ".ts">>, TextFile(lines)) >>)

NumberedFiles(n, lines) ==
    [i \in 1..n |-> Entry(<<"f", Pad3(i), ".ts">>, TextFile(lines))]

WorkTree(shape) ==
    DirNode((IF shape.chain > 0
             THEN << Entry(<<"a">>, ChainDir(shape.chain, shape.lines)) >> ELSE <<>>)
         \o (IF shape.big > 0
             THEN << Entry(<<"big">>, DirNode(NumberedFiles(shape.big, shape.lines))) >>
             ELSE <<>>)
         \o NumberedFiles(shape.top, shape.lines)
         \o (IF shape.link
             THEN << Entry(<<"lnk">>, LinkNode(<< <<"r", "x">> >>)) >> ELSE <<>>)
         \o << Entry(<<"node_modules">>,
                     DirNode(<< Entry(<<"pkg", ".ts">>, TextFile(SecretLines)),
                                Entry(<<"ascii", ".md">>,
                                      BulkFile(MAX_FILE_SIZE + OverSize, MAX_FILE_SIZE + OverSize)),
                                Entry(<<"edge", ".md">>,
                                      BulkFile(MAX_FILE_SIZE, MAX_FILE_SIZE)),
                                Entry(<<"wide", ".md">>,
                                      BulkFile(MAX_FILE_SIZE + OverSize,
                                               (MAX_FILE_SIZE + OverSize) \div 2)) >>)),
               Entry(<<"pic", ".png">>, TextFile(SecretLines)) >>)

Tree(shape) ==
    DirNode(<< Entry(<<"etc">>,
                     DirNode(<< Entry(<<"passwd">>, TextFile(SecretLines)) >>)),
               Entry(<<"r">>, WorkTree(shape)),
               Entry(<<"r", "x">>,
                     DirNode(<< Entry(<<"secret", ".ts">>, TextFile(SecretLines)) >>)) >>)

\* lines of the generated files: no match, one match, MaxLines matching lines,
\* and lines with several matches and mixed case
LineSets ==
    { << <<"o">> >>,
      << <<"x">> >>,
      [i \in 1..MaxLines |-> <<"o", "x">>],
      << <<"x", "x">>, <<"x">>, <<"o">>, <<"X", "o">> >> }

Shapes ==
    [top : {0, 2, TopFiles}, big : {0, BigDirFiles}, chain : {0, ChainDepth},
     link : BOOLEAN, lines : LineSets]

(***************************************************************************)
(* Outcomes of the Explorer operations: err.msg = "" when the operation    *)
(* returned, otherwise the message of the Error it threw; trace lists the  *)
(* file-system calls made, in order.                                       *)
(***************************************************************************)
\* an Error: its class, its message (a text and the value interpolated into
\* it) and the prefix put before the message when it was wrapped
NoErr == [prefix |-> "", type |-> "", msg |-> "", arg |-> <<>>]
Err(type, msg, arg) == [prefix |-> "", type |-> type, msg |-> msg, arg |-> arg]
Access(op, path) == [op |-> op, path |-> path]
Returned(out, trace) == [out |-> out, trace |-> trace, err |-> NoErr]
Threw(err, trace) == [out |-> [kind |-> "none"], trace |-> trace, err |-> err]

\* JavaScript values: a string is a sequence of tokens, a number is held in
\* tenths (Num(25) is 2.5), an array is a sequence of values
Undefined == [t |-> "undefined"]
Null == [t |-> "null"]
Bool(v) == [t |-> "boolean", v |-> v]
Str(v) == [t |-> "string", v |-> v]
Num(v) == [t |-> "number", v |-> v]
Arr(v) == [t |-> "array", v |-> v]
IsString(a) == a.t = "string"
\* !a for the argument values above
Falsy(a) ==
    \/ a.t \in {"undefined", "null"}
    \/ (a.t = "string" /\ a.v = <<>>)
    \/ (a.t = "number" /\ a.v = 0)
    \/ (a.t = "boolean" /\ ~a.v)

\* the sandbox test of lines 86-87: a string-prefix test on the resolved path
PassesSandboxCheck(fullPath) ==
    StartsWith(AbsStr(PathResolve(fullPath)), AbsStr(PathResolve(workingDir)))

(***************************************************************************)
(* read_file                                                               *)
(***************************************************************************)
\* read_file with the sandbox check after the existence test
readFileCheckingLate(tree, filePath) ==
    IF ~IsString(filePath)
    THEN Threw(Err("TypeError", "The \"path\" argument must be of type string", <<>>), <<>>)
    ELSE
    LET fullPath == PathJoin(workingDir, filePath.v)
        node == Stat(tree, fullPath)
        t1 == << Access("exists", fullPath) >>
        t2 == Append(t1, Access("stat", fullPath))
        t3 == Append(t2, Access("read", fullPath))
    IN  IF ~ExistsSync(tree, fullPath)
        THEN Threw(Err("Error", "File not found: ", filePath.v), t1)
        ELSE IF ~PassesSandboxCheck(fullPath)
        THEN Threw(Err("Error", "Path traversal not allowed", <<>>), t1)
        ELSE IF node.kind = "dir"
        THEN Threw(Err("Error", "EISDIR: illegal operation on a directory, read", <<>>), t3)
        ELSE IF node.size > MAX_FILE_SIZE
        THEN Returned([kind |-> "content", lines |-> node.lines,
                       chars |-> Min(node.chars, MAX_FILE_SIZE),
                       of |-> RealPath(tree, fullPath),
                       truncated |-> TRUE,
                       remaining |-> node.size - MAX_FILE_SIZE], t3)
        ELSE Returned([kind |-> "content", lines |-> node.lines,
                       chars |-> node.chars,
                       of |-> RealPath(tree, fullPath),
                       truncated |-> FALSE,
                       remaining |-> 0], t3)

readFile(tree, filePath) ==
    IF ~IsString(filePath)
    THEN Threw(Err("TypeError", "The \"path\" argument must be of type string", <<>>), <<>>)
    ELSE
    LET fullPath == PathJoin(workingDir, filePath.v)
        node == Stat(tree, fullPath)
        t1 == << Access("exists", fullPath) >>
        t2 == Append(t1, Access("stat", fullPath))
        t3 == Append(t2, Access("read", fullPath))
    IN  IF ~PassesSandboxCheck(fullPath)
        THEN Threw(Err("Error", "Path traversal not allowed", <<>>), <<>>)
        ELSE IF ~ExistsSync(tree, fullPath)
        THEN Threw(Err("Error", "File not found: ", filePath.v), t1)
        ELSE IF node.kind = "dir"
        THEN Threw(Err("Error", "EISDIR: illegal operation on a directory, read", <<>>), t3)
        ELSE IF node.size > MAX_FILE_SIZE
        THEN Returned([kind |-> "content", lines |-> node.lines,
                       chars |-> Min(node.chars, MAX_FILE_SIZE),
                       of |-> RealPath(tree, fullPath),
                       truncated |-> TRUE,
                       remaining |-> node.size - MAX_FILE_SIZE], t3)
        ELSE Returned([kind |-> "content", lines |-> node.lines,
                       chars |-> node.chars,
                       of |-> RealPath(tree, fullPath),
                       truncated |-> FALSE,
                       remaining |-> 0], t3)

(***************************************************************************)
(* list_files                                                              *)
(***************************************************************************)
\* glob patterns the model may pass
GlobTopTs == <<"*", ".ts">>          \* "*.ts"
GlobAnyTs == <<"**", "/", "*", ".ts">>   \* "**/*.ts"
GlobTopAny == <<"*">>                \* "*"

\* minimatch(entryRelPath, pattern) for the three patterns above: "*" does
\* not cross "/", "**/" matches any number of leading directories
minimatch(rel, pattern) ==
    IF pattern = GlobTopTs THEN Len(rel) = 1 /\ ExtName(rel[1]) = ".ts"
    ELSE IF pattern = GlobAnyTs THEN ExtName(Last(rel)) = ".ts"
    ELSE IF pattern = GlobTopAny THEN Len(rel) = 1
    ELSE FALSE

\* st = [results, trace, err]: the results array, the file-system calls made
\* and the error thrown by readdirSync, if any
RECURSIVE scanDir(_, _, _, _, _, _)
RECURSIVE scanEntries(_, _, _, _, _, _, _, _, _)
scanDir(tree, basePath, relativePath, pattern, st, maxDepth) ==
    IF maxDepth <= 0 \/ Len(st.results) >= MAX_LIST_RESULTS THEN st
    ELSE LET fullPath == PathJoin(basePath, relativePath)
             node == Stat(tree, fullPath)
             read == [st EXCEPT !.trace = Append(@, Access("readdir", fullPath))]
         IN  IF node.kind = "dir"
             THEN scanEntries(tree, basePath, relativePath, pattern, read,
                              maxDepth, node.entries, 1, Len(node.entries))
             ELSE [read EXCEPT !.err =
                      Err("Error", "ENOTDIR: not a directory, scandir", <<>>)]

\* the body of the for loop of scanDir for one entry
scanEntry(tree, basePath, relativePath, pattern, st, maxDepth, entry) ==
    LET entryRelPath == Append(relativePath, entry.name)
    IN  IF st.err.msg # "" THEN st
        ELSE IF entry.name \in SKIP_DIRS THEN st
        ELSE IF entry.node.kind = "dir"
        THEN scanDir(tree, basePath, entryRelPath, pattern, st, maxDepth - 1)
        ELSE IF entry.node.kind = "file"
        THEN IF Falsy(pattern) \/ minimatch(entryRelPath, pattern.v)
             THEN [st EXCEPT !.results = Append(@, entryRelPath)]
             ELSE st
        ELSE st

\* the for loop of scanDir over entries[lo..hi], in order (split in halves
\* to keep the evaluation shallow)
scanEntries(tree, basePath, relativePath, pattern, st, maxDepth, entries, lo, hi) ==
    IF lo > hi THEN st
    ELSE IF lo = hi
    THEN scanEntry(tree, basePath, relativePath, pattern, st, maxDepth, entries[lo])
    ELSE LET mid == (lo + hi) \div 2
             left == scanEntries(tree, basePath, relativePath, pattern, st,
                                 maxDepth, entries, lo, mid)
         IN  IF left.err.msg # "" THEN left
             ELSE scanEntries(tree, basePath, relativePath, pattern, left,
                              maxDepth, entries, mid + 1, hi)

listFiles(tree, directory, pattern) ==
    IF ~IsString(directory)
    THEN Threw(Err("TypeError", "The \"path\" argument must be of type string", <<>>), <<>>)
    ELSE
    LET fullPath == PathJoin(workingDir, directory.v)
        t1 == << Access("exists", fullPath) >>
        scan == scanDir(tree, fullPath, <<>>, pattern,
                        [trace |-> t1, err |-> NoErr, results |-> <<>>],
                        MAX_LIST_DEPTH)
    IN  IF ~PassesSandboxCheck(fullPath)
        THEN Threw(Err("Error", "Path traversal not allowed", <<>>), <<>>)
        ELSE IF ~ExistsSync(tree, fullPath)
        THEN Threw(Err("Error", "Directory not found: ", directory.v), t1)
        ELSE IF scan.err.msg # ""
        THEN Threw(scan.err, scan.trace)
        ELSE IF Len(scan.results) = 0
        THEN Returned([base |-> RealPath(tree, fullPath), entries |-> <<>>,
                       kind |-> "text", text |-> "No files found matching criteria."], scan.trace)
        ELSE Returned([base |-> RealPath(tree, fullPath), entries |-> scan.results, kind |-> "list",
                       text |-> ""], scan.trace)

(***************************************************************************)
(* search_code.  The queries of the model are single literal characters,   *)
(* the unbalanced "(" and the missing query (new RegExp(undefined) is the  *)
(* empty pattern, which matches at every position).                        *)
(***************************************************************************)
Lower(c) == IF c = "X" THEN "x" ELSE IF c = "O" THEN "o" ELSE c

IsValidRegex(query) == Falsy(query) \/ query.v # <<"(">>

\* positions (1-based) after lastIndex where the literal query matches
MatchPositions(line, query, lastIndex) ==
    { i \in (lastIndex + 1)..Len(line) : Lower(line[i]) = Lower(query.v[1]) }

SetMin(S) == CHOOSE m \in S : \A n \in S : m <= n

\* RegExp.prototype.test of a regex with the flags "gi": the search starts
\* at lastIndex; a match leaves lastIndex at its end, a failure resets it
RegexTest(line, query, lastIndex) ==
    IF lastIndex > Len(line)
    THEN [lastIndex |-> 0, found |-> FALSE]
    ELSE IF Falsy(query)
    THEN [lastIndex |-> lastIndex, found |-> TRUE]
    ELSE IF MatchPositions(line, query, lastIndex) = {}
    THEN [lastIndex |-> 0, found |-> FALSE]
    ELSE [lastIndex |-> SetMin(MatchPositions(line, query, lastIndex)), found |-> TRUE]

searchableExts == {".ts", ".tsx", ".js", ".jsx", ".py", ".java", ".go", ".rs",
                   ".rb", ".php", ".cs", ".cpp", ".c", ".h", ".swift", ".kt",
                   ".scala", ".vue", ".svelte", ".json", ".yaml", ".yml", ".md"}

isSearchableFile(filename) == ExtName(filename) \in searchableExts

RECURSIVE CommonPrefixLen(_, _)
CommonPrefixLen(a, b) ==
    IF a = <<>> \/ b = <<>> \/ Head(a) # Head(b) THEN 0
    ELSE 1 + CommonPrefixLen(Tail(a), Tail(b))

\* path.relative(from, to) for two normalized absolute paths
PathRelative(from, to) ==
    LET k == CommonPrefixLen(from, to)
    IN  [i \in 1..(Len(from) - k) |-> DotDot] \o SubSeq(to, k + 1, Len(to))

\* the for loop of searchInFile without its break at the fifth match
RECURSIVE matchLinesNoBreak(_, _, _, _)
matchLinesNoBreak(lines, query, m, i) ==
    IF i > Len(lines) THEN m
    ELSE LET t == RegexTest(lines[i], query, m.lastIndex)
         IN  matchLinesNoBreak(lines, query,
                 [lastIndex |-> 0,
                  matches |-> IF t.found
                              THEN Append(m.matches, [line |-> i, preview |-> lines[i]])
                              ELSE m.matches], i + 1)

\* the for loop of searchInFile; m = [matches, lastIndex]
RECURSIVE matchLines(_, _, _, _)
matchLines(lines, query, m, i) ==
    IF i > Len(lines) THEN m
    ELSE LET t == RegexTest(lines[i], query, m.lastIndex)
         IN  IF t.found
             THEN LET matches == Append(m.matches, [line |-> i, preview |-> lines[i]])
                  IN  IF Len(matches) >= MAX_MATCHES_PER_FILE
                      THEN [lastIndex |-> t.lastIndex, matches |-> matches]
                      ELSE matchLines(lines, query,
                                      [lastIndex |-> 0, matches |-> matches], i + 1)
             ELSE matchLines(lines, query,
                             [lastIndex |-> 0, matches |-> m.matches], i + 1)

\* st = [results, trace, lastIndex]
searchInFile(tree, filePath, query, st) ==
    LET node == Stat(tree, filePath)
        t1 == Append(st.trace, Access("stat", filePath))
        t2 == Append(t1, Access("read", filePath))
        m == matchLines(node.lines, query,
                        [lastIndex |-> st.lastIndex, matches |-> <<>>], 1)
    IN  IF node.size > MAX_FILE_SIZE THEN [st EXCEPT !.trace = t1]
        ELSE IF Len(m.matches) > 0
        THEN [trace |-> t2,
              results |-> Append(st.results,
                                 [matches |-> m.matches,
                                  file |-> PathRelative(workingDir, filePath),
                                  real |-> RealPath(tree, filePath)]), lastIndex |-> m.lastIndex]
        ELSE [trace |-> t2, results |-> st.results, lastIndex |-> m.lastIndex]

RECURSIVE searchInDir(_, _, _, _)
RECURSIVE searchEntries(_, _, _, _, _, _, _)
searchInDir(tree, dirPath, query, st) ==
    IF Len(st.results) >= MAX_SEARCH_RESULTS THEN st
    ELSE LET node == Stat(tree, dirPath)
             read == [st EXCEPT !.trace = Append(@, Access("readdir", dirPath))]
         IN  IF node.kind = "dir"
             THEN searchEntries(tree, dirPath, query, read, node.entries, 1,
                                Len(node.entries))
             ELSE read

\* the body of the for loop of searchInDir for one entry; once the results
\* are full the loop returns, so every later entry is left alone
searchEntry(tree, dirPath, query, st, entry) ==
    LET fullPath == Append(dirPath, entry.name)
    IN  IF Len(st.results) >= MAX_SEARCH_RESULTS THEN st
        ELSE IF entry.name \in SKIP_DIRS THEN st
        ELSE IF entry.node.kind = "dir"
        THEN searchInDir(tree, fullPath, query, st)
        ELSE IF entry.node.kind = "file" /\ isSearchableFile(entry.name)
        THEN searchInFile(tree, fullPath, query, st)
        ELSE st

\* the for loop of searchInDir over entries[lo..hi], in order
searchEntries(tree, dirPath, query, st, entries, lo, hi) ==
    IF lo > hi THEN st
    ELSE IF lo = hi THEN searchEntry(tree, dirPath, query, st, entries[lo])
    ELSE LET mid == (lo + hi) \div 2
             left == searchEntries(tree, dirPath, query, st, entries, lo, mid)
         IN  IF Len(left.results) >= MAX_SEARCH_RESULTS THEN left
             ELSE searchEntries(tree, dirPath, query, left, entries, mid + 1, hi)

searchCode(tree, query, searchPath) ==
    IF ~Falsy(searchPath) /\ ~IsString(searchPath)
    THEN Threw(Err("TypeError", "The \"path\" argument must be of type string", <<>>), <<>>)
    ELSE
    LET basePath == IF ~Falsy(searchPath) THEN PathJoin(workingDir, searchPath.v)
                                          ELSE workingDir
        found == searchInDir(tree, basePath, query,
                             [trace |-> <<>>, results |-> <<>>, lastIndex |-> 0])
    IN  IF ~PassesSandboxCheck(basePath)
        THEN Threw(Err("Error", "Path traversal not allowed", <<>>), <<>>)
        ELSE IF ~IsValidRegex(query)
        THEN Threw(Err("SyntaxError", "Invalid regular expression: ", query.v), <<>>)
        ELSE IF Len(found.results) = 0
        THEN Returned([kind |-> "text", text |-> "No matches found for: ",
                       groups |-> <<>>], found.trace)
        ELSE Returned([kind |-> "groups", text |-> "",
                       groups |-> SubSeq(found.results, 1,
                                         Min(Len(found.results), MAX_SEARCH_RESULTS))],
                      found.trace)

(***************************************************************************)
(* get_structure                                                           *)
(***************************************************************************)
\* the word tokens of the generated names, in alphabetical order
WordOrder == <<"a", "big", "etc", "f", "lnk", "m", "node_modules", "passwd",
               "pic", "pkg", "r", "secret", "x">>
ExtOrder == <<".md", ".png", ".ts">>

\* rank of a token under localeCompare: punctuation, then digits, then letters
TokenRank(t) ==
    IF \E i \in 1..Len(ExtOrder) : ExtOrder[i] = t
    THEN CHOOSE i \in 1..Len(ExtOrder) : ExtOrder[i] = t
    ELSE IF \E i \in 1..Len(WordOrder) : WordOrder[i] = t
    THEN 2000 + (CHOOSE i \in 1..Len(WordOrder) : WordOrder[i] = t)
    ELSE 10 + (CHOOSE n \in 0..999 : Pad3(n) = t)

\* a.localeCompare(b) < 0 on names
RECURSIVE NameLess(_, _)
NameLess(a, b) ==
    IF b = <<>> THEN FALSE
    ELSE IF a = <<>> THEN TRUE
    ELSE IF Head(a) = Head(b) THEN NameLess(Tail(a), Tail(b))
    ELSE TokenRank(Head(a)) < TokenRank(Head(b))

\* the comparator with its arguments exchanged
EntryLessSwapped(e1, e2) == NameLess(e2.name, e1.name)
EntryLess(e1, e2) == NameLess(e1.name, e2.name)
IsShownDir(e) == e.node.kind = "dir" /\ e.name \notin SKIP_DIRS
IsFileEntry(e) == e.node.kind = "file"

MAX_FILES_SHOWN == 10

\* out = [lines, trace]; a line is [indent, kind, name, count]
RECURSIVE buildStructure(_, _, _, _, _)
RECURSIVE structureDirs(_, _, _, _, _, _, _)
buildStructure(tree, basePath, indent, out, depth) ==
    IF depth <= 0 THEN out
    ELSE LET node == Stat(tree, basePath)
             read == [out EXCEPT !.trace = Append(@, Access("readdir", basePath))]
         IN  IF node.kind # "dir" THEN read
             ELSE
             LET dirs == SortSeq(SelectSeq(node.entries, IsShownDir), EntryLess)
                 files == SortSeq(SelectSeq(node.entries, IsFileEntry), EntryLess)
                 shown == SubSeq(files, 1, Min(Len(files), MAX_FILES_SHOWN))
                 afterDirs == structureDirs(tree, basePath, indent, read, depth, dirs, 1)
                 fileLines == [i \in 1..Len(shown) |->
                                  [name |-> shown[i].name, kind |-> "file",
                                   indent |-> indent, count |-> 0]]
                 more == IF Len(files) > MAX_FILES_SHOWN
                         THEN << [name |-> <<>>, kind |-> "more", indent |-> indent,
                                  count |-> Len(files) - MAX_FILES_SHOWN] >>
                         ELSE <<>>
             IN  [afterDirs EXCEPT !.lines = @ \o fileLines \o more]

structureDirs(tree, basePath, indent, out, depth, dirs, i) ==
    IF i > Len(dirs) THEN out
    ELSE LET dir == dirs[i]
             line == [name |-> dir.name, kind |-> "dir", indent |-> indent, count |-> 0]
             pushed == [out EXCEPT !.lines = Append(@, line)]
             sub == buildStructure(tree, Append(basePath, dir.name), indent + 1,
                                   pushed, depth - 1)
         IN  structureDirs(tree, basePath, indent, sub, depth, dirs, i + 1)

getStructure(tree) ==
    LET built == buildStructure(tree, workingDir, 0,
                                [lines |-> <<>>, trace |-> <<>>], MAX_STRUCTURE_DEPTH)
    IN  Returned([kind |-> "structure", lines |-> built.lines], built.trace)

(***************************************************************************)
(* ToolExecutor.execute / executeAll                                       *)
(***************************************************************************)
ToolNames == {"read_file", "list_files", "search_code", "get_structure"}

\* args is [t |-> "undefined"] or [t |-> "object", path, directory, pattern, query]
NoArgs == [t |-> "undefined"]
Args(path, directory, pattern, query) ==
    [t |-> "object", path |-> path, pattern |-> pattern,
     directory |-> directory, query |-> query]

\* a path argument given as a string
P(segs) == Str(segs)

\* the values of SeveritySchema and of ReviewCategorySchema
Severities == { <<"critical">>, <<"warning">>, <<"suggestion">>, <<"nitpick">> }
ReviewCategories ==
    { <<"security">>, <<"architecture">>, <<"performance">>, <<"best-practices">>,
      <<"bugs">> }

\* the switch of execute: the outcome of the Explorer operation it runs;
\* reading a property of undefined arguments throws a TypeError
runTool(tree, name, args) ==
    IF name \notin ToolNames
    THEN Returned([kind |-> "unknown"], <<>>)
    ELSE IF name = "get_structure" THEN getStructure(tree)
    ELSE IF args.t = "undefined"
    THEN Threw(Err("TypeError", "Cannot read properties of undefined", <<>>), <<>>)
    ELSE IF name = "read_file" THEN readFile(tree, args.path)
    ELSE IF name = "list_files" THEN listFiles(tree, args.directory, args.pattern)
    ELSE searchCode(tree, args.query, args.path)

EmptyString == [kind |-> "empty"]

\* execute without its catch clause: an error of the operation is rethrown
executeNoCatch(tree, call) ==
    LET run == runTool(tree, call.name, call.arguments)
    IN  IF call.name \notin ToolNames
        THEN [name |-> call.name, trace |-> <<>>,
              result |-> EmptyString,
              error |-> Err("", "Unknown tool: ", <<call.name>>), threw |-> FALSE]
        ELSE [name |-> call.name,
              trace |-> run.trace,
              result |-> IF run.err.msg # "" THEN EmptyString ELSE run.out, error |-> NoErr, threw |-> run.err.msg # ""]

\* execute(toolCall): a ToolResult {name, result, error?}; `threw` records
\* whether the promise was rejected, `trace` the file-system calls made
execute(tree, call) ==
    LET run == runTool(tree, call.name, call.arguments)
    IN  IF call.name \notin ToolNames
        THEN [name |-> call.name, trace |-> <<>>,
              result |-> EmptyString,
              error |-> Err("", "Unknown tool: ", <<call.name>>), threw |-> FALSE]
        ELSE IF run.err.msg # ""
        THEN [name |-> call.name, trace |-> run.trace, result |-> EmptyString,
              error |-> run.err, threw |-> FALSE]
        ELSE [name |-> call.name, trace |-> run.trace, result |-> run.out,
              error |-> NoErr, threw |-> FALSE]

(***************************************************************************)
(* validateResponse (the same body in the three providers)                 *)
(***************************************************************************)
Obj(summary, effortScore, issues) ==
    [t |-> "object", summary |-> summary, effortScore |-> effortScore,
     issues |-> issues]

Issue(severity, category, file, title, description) ==
    [t |-> "issue", file |-> file, severity |-> severity,
     category |-> category, title |-> title, description |-> description]

S(tok) == Str(<<tok>>)

GoodIssue == Issue(S("critical"), S("security"), S("a.ts"), S("Hardcoded secret"), S("d"))

\* r[name] for a value r: undefined on anything but an object that has it
Field(r, name) ==
    IF r.t \in {"object", "issue"} /\ name \in DOMAIN r THEN r[name] ELSE Undefined

\* a rounding that always goes to the next integer above
MathRoundAbove(tenths) == tenths \div 10 + 1

\* Math.round on tenths: the nearest integer, halves rounded up
MathRound(tenths) == (tenths + 5) \div 10

FallbackSummary == Str(<<"Unable to generate summary.">>)

\* the filter of the issues without its test of the description
IssueKeptNoDescription(issue) ==
    /\ ~Falsy(issue)
    /\ Field(issue, "severity").t = "string"
    /\ Field(issue, "category").t = "string"
    /\ Field(issue, "file").t = "string"
    /\ Field(issue, "title").t = "string"

\* a filter that also wants every required string to be non-empty
IssueKeptNonEmpty(issue) ==
    /\ ~Falsy(issue)
    /\ ~Falsy(Field(issue, "severity")) /\ Field(issue, "severity").t = "string"
    /\ ~Falsy(Field(issue, "category")) /\ Field(issue, "category").t = "string"
    /\ ~Falsy(Field(issue, "file")) /\ Field(issue, "file").t = "string"
    /\ ~Falsy(Field(issue, "title")) /\ Field(issue, "title").t = "string"
    /\ ~Falsy(Field(issue, "description")) /\ Field(issue, "description").t = "string"

IssueKept(issue) ==
    /\ ~Falsy(issue)
    /\ Field(issue, "severity").t = "string"
    /\ Field(issue, "category").t = "string"
    /\ Field(issue, "file").t = "string"
    /\ Field(issue, "title").t = "string"
    /\ Field(issue, "description").t = "string"

\* [threw, value, err]: the verdict returned, or the TypeError thrown when a
\* property of null is read or a property of a primitive is assigned
validateResponse(r) ==
    IF r.t \in {"null", "undefined"}
    THEN [err |-> Err("TypeError", "Cannot read properties of null", <<>>), threw |-> TRUE,
          value |-> Undefined]
    ELSE IF r.t \in {"number", "string", "boolean"}
    THEN [err |-> Err("TypeError", "Cannot create property on primitive", <<>>), threw |-> TRUE,
          value |-> Undefined]
    ELSE
    LET s0 == Field(r, "summary")
        e0 == Field(r, "effortScore")
        i0 == Field(r, "issues")
        summary == IF Falsy(s0) \/ s0.t # "string" THEN FallbackSummary ELSE s0
        e1 == IF Falsy(e0) \/ e0.t # "number" THEN Num(30) ELSE e0
        effortScore == Num(10 * Max(1, Min(5, MathRound(e1.v))))
        i1 == IF i0.t = "array" THEN i0.v ELSE <<>>
        issues == Arr(SelectSeq(i1, IssueKept))
    IN  [err |-> NoErr, threw |-> FALSE,
         value |-> Obj(summary, effortScore, issues)]

(***************************************************************************)
(* The final answer: extraction of the JSON text, JSON.parse, validation.  *)
(* An answer is a sequence of tokens: the code fence, the tag "json",      *)
(* white space " ", and tokens that each stand for a run of other text.    *)
(***************************************************************************)
Fence == "<fence>"
IsSpace(tok) == tok = " "

RECURSIVE TrimLeft(_)
TrimLeft(text) ==
    IF text # <<>> /\ IsSpace(Head(text)) THEN TrimLeft(Tail(text)) ELSE text

RECURSIVE TrimRight(_)
TrimRight(text) ==
    IF text # <<>> /\ IsSpace(Last(text)) THEN TrimRight(ButLast(text)) ELSE text

\* String.prototype.trim
Trim(text) == TrimRight(TrimLeft(text))

FencesOf(text) == { i \in 1..Len(text) : text[i] = Fence }

\* text.match of the fenced-block pattern (fence, optional "json", white
\* space, lazy capture, fence): capture group 1 of the first match, or
\* NoMatch; a match needs an opening and a closing fence
NoMatch == [matched |-> FALSE, group |-> <<>>]
FenceMatch(text) ==
    IF Cardinality(FencesOf(text)) < 2 THEN NoMatch
    ELSE LET open == SetMin(FencesOf(text))
             close == SetMin({ i \in FencesOf(text) : i > open })
             afterTag == IF text[open + 1] = "json" THEN open + 2 ELSE open + 1
             inner == SubSeq(text, afterTag, close - 1)
         IN  [matched |-> TRUE, group |-> TrimLeft(inner)]

\* jsonMatch[1]?.trim() || text.trim()
jsonString(text) ==
    LET m == FenceMatch(text)
    IN  IF m.matched /\ Trim(m.group) # <<>> THEN Trim(m.group) ELSE Trim(text)

\* the JSON documents of the model, each one token, and what they parse to
WellFormedVerdict == Obj(S("ok"), Num(40), Arr(<< GoodIssue >>))
SloppyVerdict == Obj(Undefined, Num(74), Arr(<< GoodIssue, Null >>))
TerseVerdict == Obj(Str(<<>>), Num(20), Arr(<<>>))
OffScaleVerdict ==
    Obj(S("ok"), Num(30), Arr(<< Issue(S("blocker"), S("style"), S("b.ts"), S("t"), S("d")) >>))

JsonDocs == {"{verdict}", "{sloppy}", "{terse}", "{offscale}", "{}", "null", "5", "[]"}
ParsedDoc(doc) ==
    CASE doc = "{verdict}" -> WellFormedVerdict
      [] doc = "{sloppy}" -> SloppyVerdict
      [] doc = "{terse}" -> TerseVerdict
      [] doc = "{offscale}" -> OffScaleVerdict
      [] doc = "{}" -> [t |-> "object"]
      [] doc = "null" -> Null
      [] doc = "5" -> Num(50)
      [] doc = "[]" -> Arr(<<>>)

\* JSON.parse of a trimmed text
JsonParse(text) ==
    IF Len(text) = 1 /\ text[1] \in JsonDocs
    THEN [err |-> NoErr, threw |-> FALSE, value |-> ParsedDoc(text[1])]
    ELSE [err |-> Err("SyntaxError", "Unexpected token in JSON", <<>>), threw |-> TRUE,
          value |-> Undefined]

\* the statements from the fenced-block match to the return of the verdict
finalAnswer(text) ==
    LET parsed == JsonParse(jsonString(text))
    IN  IF parsed.threw THEN parsed ELSE validateResponse(parsed.value)

FinalTexts ==
    { <<"{verdict}">>,
      <<"{sloppy}">>,
      <<"{terse}">>,
      <<"{offscale}">>,
      <<" ", "{verdict}", " ">>,
      <<Fence, "json", " ", "{verdict}", " ", Fence>>,
      <<"prose", Fence, "{sloppy}", Fence, "prose">>,
      <<Fence, "ts", " ", "{verdict}", Fence>>,
      <<Fence, Fence, "{verdict}">>,
      <<Fence, "{verdict}">>,
      <<"prose">>,
      <<"{}">>, <<"null">>, <<"5">>, <<"[]">>,
      <<>> }

(***************************************************************************)
(* Model responses and tool-call batches                                   *)
(***************************************************************************)
\* text of a response: absent, or a string
NoText == [t |-> "null", v |-> <<>>]
Text(v) == [t |-> "string", v |-> v]

\* a tool call as the model issued it: id is the call id of the provider (the
\* Gemini API has none), parses whether the OpenAI arguments string is JSON
Call(id, name, arguments, parses) ==
    [name |-> name, arguments |-> arguments, id |-> id, parses |-> parses]

ArgPath(p) == Args(P(p), Undefined, Undefined, Undefined)

Batches ==
    { << Call("c1", "read_file", ArgPath(<< <<"b", ".ts">> >>), TRUE) >>,
      << Call("c1", "read_file", ArgPath(<< <<"f", "001", ".ts">> >>), TRUE),
         Call("c2", "read_file", ArgPath(<< <<"f", "002", ".ts">> >>), TRUE) >>,
      << Call("c1", "delete_file", ArgPath(<< Dot >>), TRUE),
         Call("c2", "search_code",
              Args(Undefined, Undefined, Undefined, Str(<<"(">>)), TRUE),
         Call("c3", "read_file", ArgPath(<< DotDot, <<"etc">>, <<"passwd">> >>), TRUE) >>,
      << Call("c1", "list_files", Args(Undefined, P(<< Dot >>), Undefined, Undefined), TRUE),
         Call("c2", "get_structure", NoArgs, TRUE),
         Call("c3", "search_code",
              Args(Undefined, Undefined, Undefined, Str(<<"x">>)), TRUE) >>,
      << Call("c1", "list_files", Args(Undefined, Undefined, Undefined, Undefined), TRUE),
         Call("c2", "read_file", NoArgs, TRUE) >>,
      << Call("c1", "get_structure", NoArgs, TRUE),
         Call("c2", "read_file", NoArgs, FALSE) >> }

\* a response of the model endpoint.  api: whether the request succeeded;
\* present: whether it holds a choice / candidate; stop: the stop reason
\* ("end" is stop / end_turn, "tool" is tool_calls / tool_use, "other" is
\* length / max_tokens); text and calls: its text and its tool calls
Response(api, present, stop, text, calls) ==
    [t |-> "response", text |-> text, api |-> api, present |-> present,
     stop |-> stop, calls |-> calls]

\* the text that comes with the tool calls of a response
ToolTurnText == Text(<<"{verdict}">>)

Responses(b) ==
    { Response("error", FALSE, "other", NoText, <<>>),
      Response("ok", FALSE, "other", NoText, <<>>),
      Response("ok", TRUE, "end", NoText, <<>>),
      Response("ok", TRUE, "tool", ToolTurnText, b),
      Response("ok", TRUE, "end", ToolTurnText, b),
      Response("ok", TRUE, "other", ToolTurnText, b),
      Response("ok", TRUE, "tool", Text(<<"{verdict}">>), <<>>),
      Response("ok", TRUE, "other", Text(<<"{verdict}">>), <<>>) }
    \cup { Response("ok", TRUE, "end", Text(txt), <<>>) : txt \in FinalTexts }

(***************************************************************************)
(* analyzeWithTools: shared pieces                                         *)
(***************************************************************************)
Providers == {"openai", "anthropic", "gemini"}

\* outcome of a run; `at` names the statement group that raised the failure:
\* "budget" (the throw after the while loop), "model" (the request to the
\* endpoint), "response" (an unusable response), "final" (the final answer),
\* "tools" (the dispatch of a tool call)
Running == [kind |-> "running", at |-> "", error |-> NoErr, value |-> Undefined]
Failed(err, at) == [kind |-> "failed", at |-> at, error |-> err, value |-> Undefined]
Verdict(v) == [kind |-> "verdict", at |-> "final", error |-> NoErr, value |-> v]

BudgetError == Err("Error", "Max tool iterations (10) exceeded", <<>>)
TransportError == Err("APIError", "503 upstream unavailable", <<>>)

\* a wrapping that replaces the message of the cause
WrapWithoutCause(prefix, e) ==
    [prefix |-> prefix, type |-> "Error", msg |-> "request failed", arg |-> <<>>]

\* throw new Error(prefix + error.message)
Wrap(prefix, e) == [prefix |-> prefix, type |-> "Error", msg |-> e.msg, arg |-> e.arg]

\* the catch clauses: OpenAI and Anthropic wrap API errors only, Gemini
\* wraps every Error
catchOpenAI(e) == IF e.type = "APIError" THEN Wrap("OpenAI API error: ", e) ELSE e
catchAnthropic(e) == IF e.type = "APIError" THEN Wrap("Anthropic API error: ", e) ELSE e
catchGemini(e) == Wrap("Gemini API error: ", e)

\* Array.prototype.push: the array with x added at its end
pushFront(arr, x) == << x >> \o arr
\* the new element written over the last one
pushOverLast(arr, x) == IF arr = <<>> THEN << x >> ELSE Append(ButLast(arr), x)

push(arr, x) == Append(arr, x)

\* a turn of the conversation
Turn(role, text, calls, results) ==
    [results |-> results, text |-> text, calls |-> calls, role |-> role]

UserPrompt == Text(<<"prompt">>)
SystemPrompt == Text(<<"system">>)

\* the tool result as it is put in the conversation: the call id it answers
\* and result.error ? "Error: " + result.error : result.result
ResultEntry(id, result) ==
    [name |-> result.name, result |-> IF result.error.msg # "" THEN EmptyString ELSE result.result, error |-> result.error,
     id |-> id,
     isError |-> result.error.msg # ""]

\* the ToolCall built from a call of the model
ToolCallOf(id, c) == [name |-> c.name, arguments |-> c.arguments, id |-> id]

\* the file tree of the loop specification
LoopShape == [lines |-> << <<"x">> >>, chain |-> 1, big |-> 0, top |-> 2, link |-> TRUE]

\* the final-answer branch: returns the verdict or throws
\* the catch clause of analyzeWithTools of provider p
catchOf(p, e) ==
    CASE p = "openai" -> catchOpenAI(e)
      [] p = "anthropic" -> catchAnthropic(e)
      [] OTHER -> catchGemini(e)

\* a final-answer branch that answers with the default verdict
FinishWithDefault(text, p) == Verdict(validateResponse([t |-> "object"]).value)

Finish(text, p) ==
    LET f == finalAnswer(text)
    IN  IF f.threw THEN Failed(catchOf(p, f.err), "final") ELSE Verdict(f.value)

\* the while guard and the throw that follows the loop
LoopHead(p, nextPc) ==
    /\ provider = p
    /\ pc = "loop"
    /\ IF iterations < MAX_TOOL_ITERATIONS
       THEN /\ iterations' = iterations + 1
            /\ pc' = nextPc
            /\ UNCHANGED outcome
       ELSE /\ pc' = "done"
            /\ outcome' = Failed(catchOf(p, BudgetError), "budget")
            /\ UNCHANGED iterations
    /\ UNCHANGED <<explorerVars, validatorVars, callerVars, allVars, loaderVars, provider, invocations, rounds,
                   messages, response, batch, idx, roundResults>>

\* entering the dispatch of the tool calls of the response
BeginRound ==
    /\ pc' = "tools"
    /\ idx' = 1
    /\ rounds' = rounds + 1
    /\ roundResults' = <<>>
    /\ UNCHANGED outcome

\* leaving the run from Examine
EndRun(o) ==
    /\ pc' = "done"
    /\ outcome' = o
    /\ UNCHANGED <<messages, idx, rounds, roundResults>>

(***************************************************************************)
(* OpenAIProvider.analyzeWithTools                                         *)
(***************************************************************************)
OpenAI_LoopHead == LoopHead("openai", "invoke")

\* await this.client.chat.completions.create(...)
OpenAI_Invoke ==
    /\ provider = "openai"
    /\ pc = "invoke"
    /\ \E r \in Responses(batch) :
        /\ response' = r
        /\ invocations' = invocations + 1
        /\ IF r.api = "error"
           THEN /\ pc' = "done"
                /\ outcome' = Failed(catchOpenAI(TransportError), "model")
           ELSE /\ pc' = "examine"
                /\ UNCHANGED outcome
    /\ UNCHANGED <<explorerVars, validatorVars, callerVars, allVars, loaderVars, provider, iterations, rounds,
                   messages, batch, idx, roundResults>>

\* from `const choice` to `messages.push(message)`
OpenAI_Examine ==
    /\ provider = "openai"
    /\ pc = "examine"
    /\ IF ~response.present
       THEN EndRun(Failed(Err("Error", "No response choice from OpenAI", <<>>), "response"))
       ELSE IF response.stop = "end" \/ Len(response.calls) = 0
       THEN IF Falsy(response.text)
            THEN EndRun(Failed(Err("Error", "No content in final response", <<>>), "final"))
            ELSE EndRun(Finish(response.text.v, "openai"))
       ELSE /\ messages' = push(messages,
                                Turn("assistant", response.text, response.calls, <<>>))
            /\ BeginRound
    /\ UNCHANGED <<explorerVars, validatorVars, callerVars, allVars, loaderVars, provider, iterations, invocations,
                   response, batch>>

\* one iteration of `for (const toolCallMsg of message.tool_calls)`
OpenAI_ExecTool ==
    /\ provider = "openai"
    /\ pc = "tools"
    /\ idx <= Len(response.calls)
    /\ LET c == response.calls[idx]
           call == ToolCallOf(c.id, c)
           result == execute(Tree(fs), call)
           entry == ResultEntry(c.id, result)
       IN  IF ~c.parses
           THEN /\ pc' = "done"
                /\ outcome' = Failed(catchOpenAI(
                                  Err("SyntaxError", "Unexpected token in JSON", <<>>)),
                                  "tools")
                /\ UNCHANGED <<toolCall, toolResult, messages, idx, roundResults>>
           ELSE /\ toolCall' = call
                /\ toolResult' = result
                /\ messages' = push(messages, Turn("tool", NoText, <<>>, << entry >>))
                /\ roundResults' = push(roundResults, entry)
                /\ idx' = idx + 1
                /\ UNCHANGED <<pc, outcome>>
    /\ UNCHANGED <<fs, validatorVars, callerVars, allVars, loaderVars, provider, iterations, invocations, rounds,
                   response, batch>>

\* the for loop is over: back to the while guard
OpenAI_EndRound ==
    /\ provider = "openai"
    /\ pc = "tools"
    /\ idx > Len(response.calls)
    /\ pc' = "loop"
    /\ UNCHANGED <<explorerVars, validatorVars, callerVars, allVars, loaderVars, provider, iterations, invocations,
                   rounds, messages, response, batch, idx, roundResults, outcome>>

(***************************************************************************)
(* AnthropicProvider.analyzeWithTools                                      *)
(***************************************************************************)
Anthropic_LoopHead == LoopHead("anthropic", "invoke")

\* await this.client.messages.create(...)
Anthropic_Invoke ==
    /\ provider = "anthropic"
    /\ pc = "invoke"
    /\ \E r \in Responses(batch) :
        /\ r.api = "error" \/ r.present
        /\ response' = r
        /\ invocations' = invocations + 1
        /\ IF r.api = "error"
           THEN /\ pc' = "done"
                /\ outcome' = Failed(catchAnthropic(TransportError), "model")
           ELSE /\ pc' = "examine"
                /\ UNCHANGED outcome
    /\ UNCHANGED <<explorerVars, validatorVars, callerVars, allVars, loaderVars, provider, iterations, rounds,
                   messages, batch, idx, roundResults>>

\* the two `if (response.stop_reason === ...)` tests, up to the push of the
\* response of the assistant
Anthropic_Examine ==
    /\ provider = "anthropic"
    /\ pc = "examine"
    /\ IF response.stop = "end"
       THEN IF response.text.t # "string"
            THEN EndRun(Failed(Err("Error", "No text response from Anthropic", <<>>), "final"))
            ELSE EndRun(Finish(response.text.v, "anthropic"))
       ELSE IF response.stop = "tool"
       THEN IF Len(response.calls) = 0
            THEN EndRun(Failed(Err("Error", "Tool use indicated but no tool calls found",
                                   <<>>), "response"))
            ELSE /\ messages' = push(messages,
                                     Turn("assistant", response.text, response.calls, <<>>))
                 /\ BeginRound
       ELSE /\ pc' = "loop"
            /\ UNCHANGED <<messages, idx, rounds, roundResults, outcome>>
    /\ UNCHANGED <<explorerVars, validatorVars, callerVars, allVars, loaderVars, provider, iterations, invocations,
                   response, batch>>

\* one iteration of `for (const block of toolUseBlocks)`
Anthropic_ExecTool ==
    /\ provider = "anthropic"
    /\ pc = "tools"
    /\ idx <= Len(response.calls)
    /\ LET c == response.calls[idx]
           call == ToolCallOf(c.id, c)
           result == execute(Tree(fs), call)
       IN  /\ toolCall' = call
           /\ toolResult' = result
           /\ roundResults' = push(roundResults, ResultEntry(c.id, result))
           /\ idx' = idx + 1
    /\ UNCHANGED <<fs, validatorVars, callerVars, allVars, loaderVars, provider, pc, iterations, invocations, rounds,
                   messages, response, batch, outcome>>

\* messages.push({ role: 'user', content: toolResults })
\* the round ends the run with a verdict instead of going back to the model
Anthropic_EndRoundReturning ==
    /\ provider = "anthropic"
    /\ pc = "tools"
    /\ idx > Len(response.calls)
    /\ messages' = push(messages, Turn("user", NoText, <<>>, roundResults))
    /\ pc' = "done"
    /\ outcome' = Verdict(validateResponse([t |-> "object"]).value)
    /\ UNCHANGED <<explorerVars, validatorVars, callerVars, allVars, loaderVars, provider, iterations, invocations,
                   rounds, response, batch, idx, roundResults>>

Anthropic_EndRound ==
    /\ provider = "anthropic"
    /\ pc = "tools"
    /\ idx > Len(response.calls)
    /\ messages' = push(messages, Turn("user", NoText, <<>>, roundResults))
    /\ pc' = "loop"
    /\ UNCHANGED <<explorerVars, validatorVars, callerVars, allVars, loaderVars, provider, iterations, invocations,
                   rounds, response, batch, idx, roundResults, outcome>>

(***************************************************************************)
(* GeminiProvider.analyzeWithTools.  messages is the history of the chat   *)
(* session: sendMessage adds what was sent and the answer of the model.    *)
(***************************************************************************)
\* await chat.sendMessage(userPrompt) before the loop, and
\* await chat.sendMessage(functionResponses) at the end of an iteration
Gemini_Invoke ==
    /\ provider = "gemini"
    /\ pc = "invoke"
    /\ \E r \in Responses(batch) :
        LET sent == IF rounds = 0 THEN Turn("user", UserPrompt, <<>>, <<>>)
                                  ELSE Turn("function", NoText, <<>>, roundResults)
        IN  /\ response' = r
            /\ invocations' = invocations + 1
            /\ IF r.api = "error"
               THEN /\ pc' = "done"
                    /\ outcome' = Failed(catchGemini(TransportError), "model")
                    /\ UNCHANGED messages
               ELSE /\ pc' = "loop"
                    /\ messages' = IF r.present
                                   THEN messages \o << sent, Turn("model", r.text, r.calls, <<>>) >>
                                   ELSE messages
                    /\ UNCHANGED outcome
    /\ UNCHANGED <<explorerVars, validatorVars, callerVars, allVars, loaderVars, provider, iterations, rounds,
                   batch, idx, roundResults>>

Gemini_LoopHead == LoopHead("gemini", "examine")

\* from `const response = result.response` to the final-answer return
Gemini_Examine ==
    /\ provider = "gemini"
    /\ pc = "examine"
    /\ IF ~response.present
       THEN EndRun(Failed(catchGemini(Err("Error", "No candidate in Gemini response", <<>>)),
                          "response"))
       ELSE IF Len(response.calls) = 0
       THEN IF response.text.t # "string"
            THEN EndRun(Failed(catchGemini(Err("Error", "No text response from Gemini", <<>>)),
                               "final"))
            ELSE EndRun(Finish(response.text.v, "gemini"))
       ELSE /\ BeginRound
            /\ UNCHANGED messages
    /\ UNCHANGED <<explorerVars, validatorVars, callerVars, allVars, loaderVars, provider, iterations, invocations,
                   response, batch>>

\* one iteration of `for (const fc of functionCalls)`: the id of the ToolCall
\* and the name of the function response are the name of the function
Gemini_ExecTool ==
    /\ provider = "gemini"
    /\ pc = "tools"
    /\ idx <= Len(response.calls)
    /\ LET c == response.calls[idx]
           call == ToolCallOf(c.name, c)
           result == execute(Tree(fs), call)
       IN  /\ toolCall' = call
           /\ toolResult' = result
           /\ roundResults' = push(roundResults, ResultEntry(c.name, result))
           /\ idx' = idx + 1
    /\ UNCHANGED <<fs, validatorVars, callerVars, allVars, loaderVars, provider, pc, iterations, invocations, rounds,
                   messages, response, batch, outcome>>

\* the for loop is over: the function responses are sent back
Gemini_EndRound ==
    /\ provider = "gemini"
    /\ pc = "tools"
    /\ idx > Len(response.calls)
    /\ pc' = "invoke"
    /\ UNCHANGED <<explorerVars, validatorVars, callerVars, allVars, loaderVars, provider, iterations, invocations,
                   rounds, messages, response, batch, idx, roundResults, outcome>>

(***************************************************************************)
(* Values of the variables a specification does not use                    *)
(***************************************************************************)
NoCall == [name |-> "", arguments |-> NoArgs, id |-> ""]
NoResult == [name |-> "", trace |-> <<>>, result |-> EmptyString,
             error |-> NoErr, threw |-> FALSE]

NoVerdict == [err |-> NoErr, threw |-> FALSE, value |-> Undefined]

AllIdle ==
    /\ allCalls = <<>>
    /\ pending = {}
    /\ values = <<>>
    /\ settled = "idle"

LoaderIdle ==
    /\ cfg = NoValue
    /\ loaded = [files |-> <<>>, done |-> FALSE]

ExplorerIdle ==
    /\ fs = [lines |-> << <<"o">> >>, chain |-> 0, big |-> 0, top |-> 0, link |-> FALSE]
    /\ toolCall = NoCall
    /\ toolResult = NoResult

ValidatorIdle ==
    /\ vIn = NoValue
    /\ vOut = [done |-> FALSE, ret |-> NoVerdict]

LoopIdle ==
    /\ provider = "none"
    /\ pc = "idle"
    /\ iterations = 0
    /\ invocations = 0
    /\ rounds = 0
    /\ messages = <<>>
    /\ response = NoValue
    /\ batch = <<>>
    /\ idx = 0
    /\ roundResults = <<>>
    /\ outcome = Running
    /\ deadline = "open"

(***************************************************************************)
(* Specification of the ToolExecutor: one tool call against a file tree.   *)
(* The executor keeps no state between calls (its only field is            *)
(* workingDir), so a behaviour is a tree followed by one call.             *)
(***************************************************************************)
PathArgs ==
    { P(<< Dot >>),                                       \* "."
      P(<<>>),                                            \* ""
      P(<< <<"f", "001", ".ts">> >>),                     \* "f001.ts"
      P(<< <<"a">> >>),                                   \* "a"
      P(<< <<"a">>, <<"m", ".ts">> >>),                   \* "a/m.ts"
      P(<< <<"big">> >>),                                 \* "big"
      P(<< <<"missing", ".ts">> >>),                      \* "missing.ts"
      P(<< <<"node_modules">> >>),                        \* "node_modules"
      P(<< DotDot >>),                                    \* ".."
      P(<< DotDot, <<"etc">>, <<"passwd">> >>),           \* "../etc/passwd"
      P(<< DotDot, <<"missing", ".ts">> >>),              \* "../missing.ts"
      P(<< DotDot, <<"r", "x">> >>),                      \* "../rx"
      P(<< DotDot, <<"r", "x">>, <<"secret", ".ts">> >>), \* "../rx/secret.ts"
      P(<< <<"a">>, DotDot, DotDot, <<"r", "x">> >>),     \* "a/../../rx"
      P(<< <<"lnk">> >>),                                 \* "lnk"
      P(<< <<"lnk">>, <<"secret", ".ts">> >>),            \* "lnk/secret.ts"
      P(<< <<"node_modules">>, <<"ascii", ".md">> >>),    \* "node_modules/ascii.md"
      P(<< <<"node_modules">>, <<"edge", ".md">> >>),     \* "node_modules/edge.md"
      P(<< <<"node_modules">>, <<"wide", ".md">> >>),     \* "node_modules/wide.md"
      Num(5),
      Undefined }

PatternArgs == { Undefined, Str(GlobTopTs), Str(GlobAnyTs), Str(GlobTopAny) }

QueryArgs == { Str(<<"x">>), Str(<<"o">>), Str(<<"(">>), Undefined }

InitExplorer ==
    /\ fs \in Shapes
    /\ toolCall = NoCall
    /\ toolResult = NoResult
    /\ ValidatorIdle
    /\ LoopIdle
    /\ AllIdle
    /\ LoaderIdle

\* the call replaces the symbolic link of the working directory
RunRemovingLink(call) ==
    /\ toolCall = NoCall
    /\ toolCall' = call
    /\ toolResult' = execute(Tree(fs), call)
    /\ fs' = [fs EXCEPT !.link = FALSE]
    /\ UNCHANGED <<validatorVars, callerVars, allVars, loaderVars, loopVars>>

Run(call) ==
    /\ toolCall = NoCall
    /\ toolCall' = call
    /\ toolResult' = execute(Tree(fs), call)
    /\ UNCHANGED <<fs, validatorVars, callerVars, allVars, loaderVars, loopVars>>

ExecReadFile ==
    \E p \in PathArgs :
        Run([name |-> "read_file", arguments |-> Args(p, Undefined, Undefined, Undefined),
             id |-> "c1"])

ExecListFiles ==
    \E d \in PathArgs, g \in PatternArgs :
        Run([name |-> "list_files", arguments |-> Args(Undefined, d, g, Undefined),
             id |-> "c1"])

ExecSearchCode ==
    \E q \in QueryArgs, p \in PathArgs :
        Run([name |-> "search_code", arguments |-> Args(p, Undefined, Undefined, q),
             id |-> "c1"])

ExecGetStructure ==
    Run([name |-> "get_structure", arguments |-> Args(Undefined, Undefined, Undefined, Undefined),
         id |-> "c1"])

UnknownToolPaths == { P(<< Dot >>), Undefined }

ExecUnknownTool ==
    \E p \in UnknownToolPaths :
        Run([name |-> "delete_file", arguments |-> Args(p, Undefined, Undefined, Undefined),
             id |-> "c1"])

ExecWithoutArguments ==
    \E n \in ToolNames :
        Run([name |-> n, arguments |-> NoArgs, id |-> "c1"])

NextExplorer ==
    \/ ExecReadFile
    \/ ExecListFiles
    \/ ExecSearchCode
    \/ ExecGetStructure
    \/ ExecUnknownTool
    \/ ExecWithoutArguments

SpecExplorer == InitExplorer /\ [][NextExplorer]_vars

(***************************************************************************)
(* Specification of the validator: a parsed value, then validateResponse.  *)
(***************************************************************************)
MaxIssues == 2   \* largest number of entries of an input issues array

IssueValues ==
    { GoodIssue,
      Issue(S("blocker"), S("style"), S("b.ts"), S("t"), Str(<<>>)),
      Issue(S("warning"), S("bugs"), S("a.ts"), S("t"), Undefined),
      Issue(S("warning"), S("bugs"), S("a.ts"), Num(10), S("d")),
      Issue(Null, S("bugs"), S("a.ts"), S("t"), S("d")),
      Null,
      Num(70),
      S("issue") }

IssueArrays ==
    UNION { [1..n -> IssueValues] : n \in 0..MaxIssues }

SummaryValues == { Undefined, Null, S("ok"), Str(<<>>), Num(30), Arr(<<>>) }

EffortValues ==
    { Undefined, Null, S("4"), Bool(TRUE), Arr(<<>>) }
    \cup { Num(v) : v \in {-10, -6, -5, 0, 4, 5, 10, 14, 15, 25, 30, 44, 45,
                           50, 54, 55, 60, 99990} }

IssuesValues ==
    { Arr(a) : a \in IssueArrays } \cup { Undefined, Null, S("none"), Num(10) }

ParsedObjects ==
    { Obj(s, e, i) : s \in SummaryValues, e \in EffortValues, i \in IssuesValues }
    \cup { [t |-> "object"], Arr(<<>>) }

ParsedValues == ParsedObjects \cup { Null, Num(50), S("text"), Bool(TRUE) }

InitValidator ==
    /\ vIn \in ParsedValues
    /\ vOut = [done |-> FALSE, ret |-> NoVerdict]
    /\ ExplorerIdle
    /\ LoopIdle
    /\ AllIdle
    /\ LoaderIdle

Validate ==
    /\ ~vOut.done
    /\ vOut' = [done |-> TRUE, ret |-> validateResponse(vIn)]
    /\ UNCHANGED <<vIn, explorerVars, loopVars, callerVars, allVars, loaderVars>>

NextValidator == Validate

SpecValidator == InitValidator /\ [][NextValidator]_vars

(***************************************************************************)
(* Specification of the deep-review loop: a provider, the batch of tool    *)
(* calls the model issues when it asks for tools, then one run.            *)
(***************************************************************************)
InitLoop ==
    /\ provider \in Providers
    /\ batch \in Batches
    /\ provider # "openai" => \A i \in 1..Len(batch) : batch[i].parses
    /\ fs = LoopShape
    /\ toolCall = NoCall
    /\ toolResult = NoResult
    /\ ValidatorIdle
    /\ pc = IF provider = "gemini" THEN "invoke" ELSE "loop"
    /\ iterations = 0
    /\ invocations = 0
    /\ rounds = 0
    /\ messages = CASE provider = "openai" ->
                         << Turn("system", SystemPrompt, <<>>, <<>>),
                            Turn("user", UserPrompt, <<>>, <<>>) >>
                    [] provider = "anthropic" ->
                         << Turn("user", UserPrompt, <<>>, <<>>) >>
                    [] provider = "gemini" -> <<>>
    /\ response = NoValue
    /\ idx = 0
    /\ roundResults = <<>>
    /\ outcome = Running
    /\ deadline = "open"
    /\ AllIdle
    /\ LoaderIdle

NextLoop ==
    \/ OpenAI_LoopHead
    \/ OpenAI_Invoke
    \/ OpenAI_Examine
    \/ OpenAI_ExecTool
    \/ OpenAI_EndRound
    \/ Anthropic_LoopHead
    \/ Anthropic_Invoke
    \/ Anthropic_Examine
    \/ Anthropic_ExecTool
    \/ Anthropic_EndRound
    \/ Gemini_Invoke
    \/ Gemini_LoopHead
    \/ Gemini_Examine
    \/ Gemini_ExecTool
    \/ Gemini_EndRound

SpecLoop == InitLoop /\ [][NextLoop]_vars

(***************************************************************************)
(* Specification: a run whose caller has a time budget                     *)
(***************************************************************************)
\* the time budget of the caller runs out while the run is not finished;
\* analyzeWithTools takes no deadline, signal or clock, so no step of the
\* run reads it
DeadlineExpires ==
    /\ pc # "done"
    /\ deadline = "open"
    /\ deadline' = "expired"
    /\ UNCHANGED <<explorerVars, validatorVars, loopVars, allVars, loaderVars>>

NextDeadline ==
    \/ NextLoop
    \/ DeadlineExpires

SpecDeadline == InitLoop /\ [][NextDeadline]_vars

(***************************************************************************)
(* Specification: executeAll over a batch of tool calls                    *)
(***************************************************************************)
MaxBatch == 3

\* tool calls that succeed, fail, name no tool and carry no arguments
BatchCalls ==
    { [name |-> "read_file", arguments |-> Args(P(<< <<"f", "001", ".ts">> >>), Undefined, Undefined, Undefined),
       id |-> "c1"],
      [name |-> "read_file", arguments |-> Args(P(<< <<"missing", ".ts">> >>), Undefined, Undefined, Undefined),
       id |-> "c2"],
      [name |-> "list_files", arguments |-> Args(Undefined, P(<< Dot >>), Undefined, Undefined),
       id |-> "c3"],
      [name |-> "delete_file", arguments |-> Args(P(<< Dot >>), Undefined, Undefined, Undefined),
       id |-> "c4"],
      [name |-> "search_code", arguments |-> NoArgs, id |-> "c5"] }

CallBatches == UNION { [1..n -> BatchCalls] : n \in 0..MaxBatch }

\* the values collected in the order in which the executions complete
settleInArrivalOrder(vals, i, r) ==
    LET free == { k \in 1..Len(vals) : vals[k] = NoResult }
    IN  [vals EXCEPT ![CHOOSE k \in free : \A j \in free : k <= j] = r]

\* Promise.all keeps the value of the i-th promise at index i
settle(vals, i, r) == [vals EXCEPT ![i] = r]

\* toolCalls.map((tc) => this.execute(tc)) handed to Promise.all
InitExecuteAll ==
    /\ fs = LoopShape
    /\ toolCall = NoCall
    /\ toolResult = NoResult
    /\ ValidatorIdle
    /\ LoopIdle
    /\ LoaderIdle
    /\ allCalls \in CallBatches
    /\ pending = 1..Len(allCalls)
    /\ values = [i \in 1..Len(allCalls) |-> NoResult]
    /\ settled = IF allCalls = <<>> THEN "fulfilled" ELSE "pending"

\* one of the running executions completes; Promise.all is fulfilled by the
\* last one and rejected by the first one that is rejected
ExecutionCompletes ==
    \E i \in pending :
        LET r == execute(Tree(fs), allCalls[i])
        IN  /\ toolCall' = allCalls[i]
            /\ toolResult' = r
            /\ pending' = pending \ {i}
            /\ IF r.threw
               THEN /\ settled' = "rejected"
                    /\ UNCHANGED values
               ELSE /\ values' = settle(values, i, r)
                    /\ settled' = IF settled = "rejected" THEN "rejected"
                                  ELSE IF pending = {i} THEN "fulfilled"
                                  ELSE "pending"
            /\ UNCHANGED <<fs, validatorVars, callerVars, loopVars, allCalls, loaderVars>>

NextExecuteAll == ExecutionCompletes

SpecExecuteAll == InitExecuteAll /\ [][NextExecuteAll]_vars

(***************************************************************************)
(* loadConfig: the AI context files                                        *)
(* A path is the sequence of its segments below workingDir.                *)
(***************************************************************************)
DEFAULT_CONTEXT_FILES ==
    << <<"CLAUDE.md">>, <<"AGENTS.md">>, <<"COPILOT.md">>, <<"AI.md">>,
       <<"CONVENTIONS.md">>, <<".cursorrules">>, <<"cursor.md">>,
       <<".github", "copilot-instructions.md">> >>

searchLocations == << <<>>, <<".claude">>, <<".cursor">>, <<".github">>, <<"docs">> >>

\* the files of the repository under review, and a directory that bears the
\* name of a context file (reading it fails)
RepoFiles ==
    { <<"CLAUDE.md">>, <<".claude", "CLAUDE.md">>, <<"NOTES.md">>,
      <<"docs", "NOTES.md">>, <<".github", "copilot-instructions.md">> }
RepoDirs == { <<"AGENTS.md">> }

existsSync(p) == p \in RepoFiles \cup RepoDirs

findContextFile(fileName) ==
    LET foundPaths == SelectSeq([i \in 1..Len(searchLocations) |->
                                    searchLocations[i] \o fileName], existsSync)
        directPath == fileName
    IN  IF existsSync(directPath)
           /\ \A k \in 1..Len(foundPaths) : foundPaths[k] # directPath
        THEN Append(foundPaths, directPath)
        ELSE foundPaths

\* the paths found for every name of filesToSearch, in the order of the loops
RECURSIVE foundFor(_)
foundFor(filesToSearch) ==
    IF filesToSearch = <<>> THEN <<>>
    ELSE findContextFile(Head(filesToSearch)) \o foundFor(Tail(filesToSearch))

\* the body of the inner loop: duplicates and unreadable files are skipped
RECURSIVE readEach(_, _)
readEach(paths, contextFiles) ==
    IF paths = <<>> THEN contextFiles
    ELSE LET filePath == Head(paths)
             known == \E k \in 1..Len(contextFiles) : contextFiles[k].path = filePath
         IN  IF known \/ filePath \notin RepoFiles
             THEN readEach(Tail(paths), contextFiles)
             ELSE readEach(Tail(paths),
                           Append(contextFiles,
                                  [name |-> Last(filePath), path |-> filePath,
                                   content |-> filePath]))

filesToSearch(config) ==
    LET contextConfig == config.context_files
        claudeConfig == config.claude_md
    IN  (IF contextConfig.enabled /\ contextConfig.search_defaults
         THEN DEFAULT_CONTEXT_FILES ELSE <<>>)
        \o (IF ~Falsy(contextConfig.paths) THEN contextConfig.paths.v ELSE <<>>)
        \o (IF claudeConfig.enabled /\ ~Falsy(claudeConfig.path)
            THEN << claudeConfig.path.v >> ELSE <<>>)

loadContextFiles(config) ==
    IF ~config.context_files.enabled /\ ~config.claude_md.enabled THEN <<>>
    ELSE readEach(foundFor(filesToSearch(config)), <<>>)

(***************************************************************************)
(* Specification: loadConfig on every parsed configuration                 *)
(***************************************************************************)
PathsValues ==
    { Undefined, Arr(<<>>), Arr(<< <<"NOTES.md">> >>),
      Arr(<< <<"NOTES.md">>, <<"CLAUDE.md">> >>), Arr(<< <<"MISSING.md">> >>) }
ClaudePathValues == { Undefined, Str(<<"CLAUDE.md">>), Str(<<"NOTES.md">>) }

ContextFilesConfigs == [enabled : BOOLEAN, paths : PathsValues, search_defaults : BOOLEAN]
ClaudeMdConfigs == [enabled : BOOLEAN, path : ClaudePathValues]
SentinelConfigs == [context_files : ContextFilesConfigs, claude_md : ClaudeMdConfigs]

InitLoader ==
    /\ cfg \in SentinelConfigs
    /\ loaded = [files |-> <<>>, done |-> FALSE]
    /\ ExplorerIdle
    /\ ValidatorIdle
    /\ LoopIdle
    /\ AllIdle

\* loadConfig from `const contextFiles = loadContextFiles(config, workingDir)`
LoadConfig ==
    /\ ~loaded.done
    /\ loaded' = [files |-> loadContextFiles(cfg), done |-> TRUE]
    /\ UNCHANGED <<cfg, explorerVars, validatorVars, callerVars, loopVars, allVars>>

NextLoader == LoadConfig

SpecLoader == InitLoader /\ [][NextLoader]_vars

(***************************************************************************)
(* Properties of the deep-review loop (checked under SpecLoop)             *)
(***************************************************************************)
\* number of turns of the model in the conversation that carry tool calls
ToolCallTurns ==
    Cardinality({ i \in 1..Len(messages) :
                    /\ messages[i].role \in {"assistant", "model"}
                    /\ Len(messages[i].calls) > 0 })

\* every model invocation of the run was answered with tool calls
OnlyToolCallAnswers == invocations > 0 /\ ToolCallTurns = invocations

\* C1: when the model answers every turn with tool calls (and every call was
\* dispatched), the run ends with the iteration-budget failure after exactly
\* MAX_TOOL_ITERATIONS model invocations, in every provider.
C1_BudgetFailureAfterTenInvocations ==
    (pc = "done" /\ OnlyToolCallAnswers /\ outcome.at # "tools")
        => (outcome.at = "budget" /\ invocations = MAX_TOOL_ITERATIONS)

\* C3: no failure caused by a tool call of the model ends the run: a run never
\* terminates from inside the dispatch of a tool call.
C3_ToolCallFailureNeverEndsRun ==
    pc = "done" => outcome.at # "tools"

\* the id the loop gives to the ToolCall built from call c
CallIdOf(c) == IF provider = "gemini" THEN c.name ELSE c.id

RoundComplete == pc = "tools" /\ idx > Len(response.calls)

\* C5: at the end of a dispatch round every call of the round has exactly one
\* result, that result carries the id of its call, and the ids of the calls
\* of one round are pairwise different.
C5_OneResultPerCallWithOwnId ==
    RoundComplete =>
        /\ Len(roundResults) = Len(response.calls)
        /\ \A i \in 1..Len(response.calls) :
              roundResults[i].id = CallIdOf(response.calls[i])
        /\ \A i, j \in 1..Len(response.calls) :
              i # j => CallIdOf(response.calls[i]) # CallIdOf(response.calls[j])

\* the tool results the next model invocation will carry, as they stand in the
\* conversation (OpenAI: the trailing tool messages, one for each call;
\* Anthropic: the last user turn; Gemini: the function responses to be sent)
RECURSIVE ResultsOf(_)
ResultsOf(turns) ==
    IF Len(turns) = 0 THEN <<>>
    ELSE Head(turns).results \o ResultsOf(Tail(turns))

SentResults ==
    CASE provider = "openai" ->
             ResultsOf(SubSeq(messages, Len(messages) - Len(batch) + 1, Len(messages)))
      [] provider = "anthropic" -> Last(messages).results
      [] provider = "gemini" -> roundResults
      [] OTHER -> <<>>

\* what identifies the result of call c: its id, its tool, its error and the
\* kind of its result
Digest(entry) ==
    [name |-> entry.name, kind |-> entry.result.kind, msg |-> entry.error.msg,
     id |-> entry.id]
ExpectedDigest(c) ==
    Digest(ResultEntry(CallIdOf(c), execute(Tree(fs), ToolCallOf(CallIdOf(c), c))))

AfterRound == pc = "invoke" /\ rounds > 0

\* C6: when the model is invoked after a dispatch round, the tool results in
\* the conversation are the results of the calls of the round, in call order.
C6_ResultsInCallOrder ==
    AfterRound =>
        /\ Len(SentResults) = Len(batch)
        /\ \A i \in 1..Len(batch) : Digest(SentResults[i]) = ExpectedDigest(batch[i])

C6_Witness ==
    /\ AfterRound
    /\ Len(batch) = 3
    /\ Digest(SentResults[1]) # Digest(SentResults[3])

\* C10: a run makes at most MAX_TOOL_ITERATIONS model invocations and enters
\* at most MAX_TOOL_ITERATIONS dispatch rounds.
C10_AtMostTenInvocationsAndRounds ==
    /\ invocations <= MAX_TOOL_ITERATIONS
    /\ rounds <= MAX_TOOL_ITERATIONS

(***************************************************************************)
(* Properties of the ToolExecutor (checked under SpecExplorer)             *)
(***************************************************************************)
Called == toolCall.name # ""

\* the path argument of a call of read_file, list_files or search_code
PathArgument(call) ==
    IF call.name = "list_files" THEN call.arguments.directory
    ELSE call.arguments.path

\* the call names, through its path argument, a place outside the root
EscapesRoot(call) ==
    /\ call.name \in {"read_file", "list_files", "search_code"}
    /\ call.arguments.t = "object"
    /\ IsString(PathArgument(call))
    /\ ~IsWithin(RealPath(Tree(fs), PathJoin(workingDir, PathArgument(call).v)),
                 workingDir)

\* C2: a call whose path argument resolves outside the working directory
\* fails with "Path traversal not allowed" and returns no data.
C2_EscapingPathRejected ==
    (Called /\ EscapesRoot(toolCall)) =>
        /\ toolResult.error.msg = "Path traversal not allowed"
        /\ toolResult.result.kind = "empty"

\* the directory a list_files call lists
ListedDir == PathJoin(workingDir, toolCall.arguments.directory.v)

\* C7: a successful list_files returns at most 100 entries and reads no
\* directory more than 3 levels below the listed one.
C7_ListFilesBounded ==
    (Called /\ toolCall.name = "list_files" /\ toolResult.error.msg = "") =>
        /\ Len(toolResult.result.entries) <= MAX_LIST_RESULTS
        /\ \A k \in 1..Len(toolResult.trace) :
              toolResult.trace[k].op = "readdir" =>
                  Len(toolResult.trace[k].path) - Len(ListedDir) <= MAX_LIST_DEPTH

\* C8: the result of search_code has at most 20 file groups and every group
\* lists at most 5 lines.
C8_SearchBounded ==
    (Called /\ toolCall.name = "search_code" /\ toolResult.error.msg = "") =>
        /\ Len(toolResult.result.groups) <= MAX_SEARCH_RESULTS
        /\ \A g \in 1..Len(toolResult.result.groups) :
              Len(toolResult.result.groups[g].matches) <= MAX_MATCHES_PER_FILE

\* a search over more than 20 matching files of more than 5 matching lines
C8_Witness ==
    /\ Called
    /\ toolCall.name = "search_code"
    /\ fs.top + fs.big > MAX_SEARCH_RESULTS
    /\ Len(fs.lines) > MAX_MATCHES_PER_FILE
    /\ toolResult.result.kind = "groups"
    /\ Len(toolResult.result.groups) = MAX_SEARCH_RESULTS
    /\ Len(toolResult.result.groups[1].matches) = MAX_MATCHES_PER_FILE

\* the operation run for the call failed: unknown tool or a thrown error
CallFailed ==
    \/ toolCall.name \notin ToolNames
    \/ runTool(Tree(fs), toolCall.name, toolCall.arguments).err.msg # ""

\* C9: execute never throws; a failed call gives a ToolResult with a populated
\* error and an empty result.
C9_ExecuteNeverThrows ==
    Called =>
        /\ ~toolResult.threw
        /\ CallFailed => (toolResult.error.msg # "" /\ toolResult.result.kind = "empty")

\* a call without arguments whose TypeError came back as an error text
C9_Witness ==
    /\ Called
    /\ toolCall.name \in ToolNames
    /\ toolCall.arguments.t = "undefined"
    /\ toolResult.error.type = "TypeError"
    /\ ~toolResult.threw

(***************************************************************************)
(* Properties of the validator (checked under SpecValidator)               *)
(***************************************************************************)
IsJsonObject(v) == v.t \in {"object", "array"}

WholeScores == { Num(10 * n) : n \in 1..5 }

RequiredFields == {"severity", "category", "file", "title", "description"}

HasRequiredStrings(issue) ==
    /\ issue.t = "issue"
    /\ \A f \in RequiredFields : issue[f].t = "string"

\* C4: on every object validateResponse returns, without throwing, a verdict
\* with an integer effortScore in 1..5 and an array of issues that all carry
\* the five required string fields.
C4_ValidatorTotalOnObjects ==
    (vOut.done /\ IsJsonObject(vIn)) =>
        /\ ~vOut.ret.threw
        /\ vOut.ret.value.effortScore \in WholeScores
        /\ vOut.ret.value.issues.t = "array"
        /\ \A i \in 1..Len(vOut.ret.value.issues.v) :
              HasRequiredStrings(vOut.ret.value.issues.v[i])

\* an object with an out-of-range score and an issue without description
C4_Witness ==
    /\ vOut.done
    /\ vIn.t = "object"
    /\ "effortScore" \in DOMAIN vIn
    /\ vIn.effortScore = Num(99990)
    /\ vIn.issues.t = "array"
    /\ Len(vIn.issues.v) = 2
    /\ Len(vOut.ret.value.issues.v) = 1
    /\ vOut.ret.value.effortScore = Num(50)

(***************************************************************************)
(* Further properties of the deep-review loop (checked under SpecLoop)     *)
(***************************************************************************)
\* what the text of the response being processed parses to
ParsedAnswer == JsonParse(jsonString(response.text.v))

\* the response being processed is a final answer: an answered request that
\* stopped at its end, with a text and without tool calls
IsFinalAnswer ==
    /\ response.t = "response"
    /\ response.api = "ok"
    /\ response.present
    /\ response.stop = "end"
    /\ Len(response.calls) = 0
    /\ response.text.t = "string"

\* a final answer whose text holds a JSON object
FinalValidObject ==
    /\ IsFinalAnswer
    /\ ~ParsedAnswer.threw
    /\ ParsedAnswer.value.t = "object"

MissingFile == << <<"b", ".ts">> >>
MissingFileBatch == << Call("c1", "read_file", ArgPath(MissingFile), TRUE) >>

\* the conversation holds a tool result with the error of the missing file
FileNotFoundInConversation ==
    \E i \in 1..Len(messages) :
        \E j \in 1..Len(messages[i].results) :
            /\ messages[i].results[j].isError
            /\ messages[i].results[j].error.msg = "File not found: "
            /\ messages[i].results[j].error.arg = MissingFile

\* C11: a run whose first k turns (1 <= k <= 9) were tool-call turns does not
\* end on such a turn, and returns a verdict at invocation k+1 when the answer
\* of that invocation is final and holds a JSON object; with the read_file of
\* the missing b.ts as the only tool turn, the error "File not found: b.ts" is
\* in the conversation and the run succeeds in 2 iterations.
C11_VerdictAfterToolTurns ==
    (pc = "done" /\ ToolCallTurns \in 1..(MAX_TOOL_ITERATIONS - 1)) =>
        /\ ToolCallTurns # invocations
        /\ (invocations = ToolCallTurns + 1 /\ FinalValidObject) =>
               /\ outcome.kind = "verdict"
               /\ iterations = invocations
               /\ (batch = MissingFileBatch /\ ToolCallTurns = 1) =>
                      FileNotFoundInConversation

\* the text is not the text of a JSON document, fenced or not
IsProse(text) ==
    /\ FencesOf(text) = {}
    /\ ~(Len(Trim(text)) = 1 /\ Trim(text)[1] \in JsonDocs)

UnparseableFinal == IsFinalAnswer /\ IsProse(response.text.v)

MalformedMessages == {"Unexpected token in JSON", "No content in final response"}

\* C12: the step that examines a final answer without fenced block and
\* without parseable JSON ends the run in a malformed-response failure, with
\* no verdict, no model invocation and no tool execution; an ended run takes
\* no further step.
C12_UnparseableFinalFails ==
    [][ /\ (pc = "examine" /\ UnparseableFinal) =>
              /\ pc' = "done"
              /\ outcome'.kind = "failed"
              /\ outcome'.at = "final"
              /\ outcome'.error.msg \in MalformedMessages
              /\ outcome'.value = Undefined
              /\ invocations' = invocations
              /\ rounds' = rounds
              /\ toolCall' = toolCall
        /\ pc # "done" ]_vars

\* a run that used tools and then answered with prose
C12_Witness ==
    /\ pc = "done"
    /\ UnparseableFinal
    /\ response.text.v = <<"prose">>
    /\ rounds >= 1
    /\ outcome.kind = "failed"

\* what the caller sees of the kind of an error: its class and the label put
\* in front of its message
KindOf(e) == << e.type, e.prefix >>

Causes == {"budget", "transport", "malformed"}

ParseError == Err("SyntaxError", "Unexpected token in JSON", <<>>)

\* the error the caller of provider p gets for a cause
ErrorOfCause(p, cause) ==
    CASE cause = "budget" -> catchOf(p, BudgetError)
      [] cause = "transport" -> catchOf(p, TransportError)
      [] OTHER -> catchOf(p, ParseError)

\* the cause of the failure a run ended with
CauseOf(o) ==
    CASE o.at = "budget" -> "budget"
      [] o.at = "model" -> "transport"
      [] o.at = "final" /\ o.error.msg = ParseError.msg -> "malformed"
      [] OTHER -> "other"

\* C13: a failure by an exhausted budget, by a transport failure or by an
\* unparseable final answer has a kind that the failures of the two other
\* causes do not have in the same provider.
C13_FailuresTypedByCause ==
    (pc = "done" /\ outcome.kind = "failed" /\ CauseOf(outcome) \in Causes) =>
        \A other \in Causes \ {CauseOf(outcome)} :
            KindOf(outcome.error) # KindOf(ErrorOfCause(provider, other))

\* C14: a run whose final answer parsed to a JSON value ends with a verdict
\* or with a classified failure: no TypeError of the validator reaches the
\* caller.
C14_NoRawExceptionFromValidator ==
    (pc = "done" /\ outcome.at = "final" /\ IsFinalAnswer /\ ~ParsedAnswer.threw) =>
        \/ outcome.kind = "verdict"
        \/ outcome.kind = "failed" /\ outcome.error.type # "TypeError"

\* C15: the step in which a model invocation fails with an API error ends the
\* run in a failure that keeps the message of the cause, without entering a
\* round or executing a tool; an ended run takes no further step, so nothing
\* is retried.
C15_TransportErrorEndsRun ==
    [][ /\ (invocations' = invocations + 1 /\ response'.api = "error") =>
              /\ pc' = "done"
              /\ outcome'.kind = "failed"
              /\ outcome'.at = "model"
              /\ outcome'.error.msg = TransportError.msg
              /\ outcome'.error.arg = TransportError.arg
              /\ rounds' = rounds
              /\ toolCall' = toolCall
        /\ pc = "done" => (invocations' = invocations /\ toolCall' = toolCall) ]_vars

\* a transport failure in a later turn of a run that had used tools
C15_Witness ==
    /\ pc = "done"
    /\ response.t = "response"
    /\ response.api = "error"
    /\ rounds >= 1
    /\ invocations >= 2
    /\ outcome.error.msg = TransportError.msg

(***************************************************************************)
(* Further properties of the validator (checked under SpecValidator)       *)
(***************************************************************************)
\* the object passed in carries the three fields of a verdict
IsVerdictShaped(v) ==
    v.t = "object" /\ {"summary", "effortScore", "issues"} \subseteq DOMAIN v

Validated == vOut.done /\ IsVerdictShaped(vIn) /\ ~vOut.ret.threw

\* a number of tenths rounded to the nearest integer and clamped to 1..5
RoundedAndClamped(tenths) ==
    IF tenths < 15 THEN 1
    ELSE IF tenths >= 45 THEN 5
    ELSE CHOOSE n \in 2..4 : 10 * n - 5 <= tenths /\ tenths < 10 * n + 5

\* C16: the effortScore returned is 3 when the input's is missing or not a
\* number, and for every numeric input (0, negative and large values too) it
\* is the input rounded to the nearest integer and clamped to 1..5.
C16_EffortScoreRoundedAndClamped ==
    Validated =>
        vOut.ret.value.effortScore =
            IF vIn.effortScore.t = "number"
            THEN Num(10 * RoundedAndClamped(vIn.effortScore.v))
            ELSE Num(30)

\* C17: the summary returned is the fallback text when the input's is missing
\* or not a string, and every string summary (the empty one too) is returned
\* unchanged.
C17_SummaryKeptOrFallback ==
    Validated =>
        vOut.ret.value.summary =
            IF vIn.summary.t = "string" THEN vIn.summary ELSE FallbackSummary

\* an entry that carries the five required fields as strings
CarriesRequiredStrings(e) ==
    /\ e.t = "issue"
    /\ \A f \in RequiredFields : e[f].t = "string"

\* C18: the issues returned are the empty sequence when the input's is not an
\* array, and otherwise exactly the input entries that carry the five
\* required strings, unchanged and in their order.
C18_IssuesFilteredInOrder ==
    Validated =>
        vOut.ret.value.issues =
            IF vIn.issues.t = "array"
            THEN Arr(SelectSeq(vIn.issues.v, CarriesRequiredStrings))
            ELSE Arr(<<>>)

\* an array of which the first entry is dropped and the second, with an empty
\* description, is kept
C18_Witness ==
    /\ Validated
    /\ vIn.issues.t = "array"
    /\ Len(vIn.issues.v) = 2
    /\ ~CarriesRequiredStrings(vIn.issues.v[1])
    /\ CarriesRequiredStrings(vIn.issues.v[2])
    /\ vIn.issues.v[2].description = Str(<<>>)
    /\ vOut.ret.value.issues.v = << vIn.issues.v[2] >>

(***************************************************************************)
(* Properties of the verdict a run returns (checked under SpecLoop)        *)
(***************************************************************************)
\* a well-formed verdict: string summary, whole effortScore in 1..5, issues
\* that all carry the five required strings
IsWellFormedVerdict(v) ==
    /\ IsVerdictShaped(v)
    /\ v.summary.t = "string"
    /\ v.effortScore \in WholeScores
    /\ v.issues.t = "array"
    /\ \A i \in 1..Len(v.issues.v) : CarriesRequiredStrings(v.issues.v[i])

\* the run ended on its first response, a final answer that parsed
EndedOnFirstAnswer ==
    /\ pc = "done"
    /\ invocations = 1
    /\ IsFinalAnswer
    /\ ~ParsedAnswer.threw

\* C19: a run whose first response is a final answer holding a well-formed
\* verdict returns that verdict unmodified, after one model invocation and
\* without executing a tool.
C19_WellFormedVerdictUnmodified ==
    (EndedOnFirstAnswer /\ IsWellFormedVerdict(ParsedAnswer.value)) =>
        /\ outcome = Verdict(ParsedAnswer.value)
        /\ rounds = 0
        /\ toolCall = NoCall

\* C20: every issue of a verdict returned by a run has its severity in
\* SeveritySchema and its category in ReviewCategorySchema.
C20_IssuesWithinEnums ==
    (pc = "done" /\ outcome.kind = "verdict") =>
        \A i \in 1..Len(outcome.value.issues.v) :
            /\ outcome.value.issues.v[i].severity.v \in Severities
            /\ outcome.value.issues.v[i].category.v \in ReviewCategories

\* the interior of the first fenced block of a text that has one (what lies
\* between its first two fences, without a leading json tag, trimmed), and
\* the whole trimmed text of a text that has none
HasFencedBlock(text) == \E i, j \in 1..Len(text) : i < j /\ text[i] = Fence /\ text[j] = Fence
FirstBlockInterior(text) ==
    LET open == CHOOSE i \in 1..Len(text) :
                    text[i] = Fence /\ \A k \in 1..(i - 1) : text[k] # Fence
        close == CHOOSE j \in (open + 1)..Len(text) :
                    text[j] = Fence /\ \A k \in (open + 1)..(j - 1) : text[k] # Fence
        start == IF text[open + 1] = "json" THEN open + 2 ELSE open + 1
    IN  Trim(SubSeq(text, start, close - 1))
ExpectedJsonText(text) ==
    IF HasFencedBlock(text) THEN FirstBlockInterior(text) ELSE Trim(text)

\* C21: the text handed to the JSON parser is the interior of the first
\* fenced block of the answer whenever the answer has a fenced block (also
\* when that block is empty), and the whole trimmed answer only when it has
\* none.
C21_ParsedTextIsFirstBlockInterior ==
    (pc = "examine" /\ IsFinalAnswer) =>
        jsonString(response.text.v) = ExpectedJsonText(response.text.v)


\* the file a successful read_file has read, and the number of bytes of it
\* that the returned content holds (the files of the tree store every
\* character in the same number of bytes)
FileRead == Stat(Tree(fs), toolResult.result.of)
BytesReturned ==
    IF FileRead.chars = 0 THEN 0
    ELSE toolResult.result.chars * (FileRead.size \div FileRead.chars)

ReadSucceeded ==
    /\ Called
    /\ toolCall.name = "read_file"
    /\ toolResult.error.msg = ""
    /\ toolResult.result.kind = "content"

\* C22: read_file returns at most 500 KiB of a file larger than 500 KiB,
\* followed by a marker whose number is the number of bytes of the file that
\* the output omits; a file of at most 500 KiB is returned whole, without a
\* marker.
C22_TruncationCountsOmittedBytes ==
    ReadSucceeded =>
        IF FileRead.size > MAX_FILE_SIZE
        THEN /\ toolResult.result.truncated
             /\ BytesReturned <= MAX_FILE_SIZE
             /\ toolResult.result.remaining = FileRead.size - BytesReturned
        ELSE /\ ~toolResult.result.truncated
             /\ BytesReturned = FileRead.size


\* the lines of a structure listing; the line of the directory that a line
\* belongs to is the nearest directory line above it that is indented one
\* step less (0 stands for the root, -1 for a line without a directory)
StructureLines == toolResult.result.lines
ParentLine(L, i) ==
    IF L[i].indent = 0 THEN 0
    ELSE LET above == { j \in 1..(i - 1) :
                          L[j].kind = "dir" /\ L[j].indent = L[i].indent - 1 }
         IN  IF above = {} THEN -1
             ELSE CHOOSE j \in above : \A k \in above : k <= j

RECURSIVE DirPathOf(_, _)
DirPathOf(L, j) ==
    IF j <= 0 THEN workingDir
    ELSE Append(DirPathOf(L, ParentLine(L, j)), L[j].name)

KindRank(kind) == IF kind = "dir" THEN 1 ELSE IF kind = "file" THEN 2 ELSE 3

\* the number of regular files that the directory of line j holds
FilesHeld(L, j) ==
    LET entries == Stat(Tree(fs), DirPathOf(L, j)).entries
    IN  Cardinality({ k \in 1..Len(entries) : entries[k].node.kind = "file" })

StructureReturned ==
    /\ Called
    /\ toolCall.name = "get_structure"
    /\ toolResult.error.msg = ""
    /\ toolResult.result.kind = "structure"

\* C23: get_structure lists, in each directory, the subdirectories before the
\* files, each group in alphabetical order; it nests at most 4 levels below
\* the root; it lists at most 10 files of a directory and, where the
\* directory holds more, an overflow line whose number is the file count
\* minus 10.
C23_StructureOrderedAndCapped ==
    StructureReturned =>
        LET L == StructureLines
            par == [i \in 1..Len(L) |-> ParentLine(L, i)]
            listed == {0} \cup { j \in 1..Len(L) : L[j].kind = "dir" /\ L[j].indent < 3 }
        IN  /\ \A i \in 1..Len(L) : L[i].indent <= 3 /\ par[i] >= 0
            /\ \A i, j \in 1..Len(L) :
                  (i < j /\ par[i] = par[j]) =>
                      /\ KindRank(L[i].kind) <= KindRank(L[j].kind)
                      /\ L[i].kind = L[j].kind =>
                            /\ L[i].kind # "more"
                            /\ NameLess(L[i].name, L[j].name)
            /\ \A d \in listed :
                  LET held == FilesHeld(L, d)
                      shown == { i \in 1..Len(L) : par[i] = d /\ L[i].kind = "file" }
                      more == { i \in 1..Len(L) : par[i] = d /\ L[i].kind = "more" }
                  IN  /\ Cardinality(shown) = Min(held, 10)
                      /\ Cardinality(shown) <= 10
                      /\ IF held > 10
                         THEN \E i \in more : more = {i} /\ L[i].count = held - 10
                         ELSE more = {}

\* a listing that reaches the fourth level, lists a directory with
\* subdirectories and files, and cuts a directory of more than 10 files
C23_Witness ==
    /\ StructureReturned
    /\ \E i \in 1..Len(StructureLines) : StructureLines[i].indent = 3
    /\ \E i, j \in 1..Len(StructureLines) :
          /\ StructureLines[i].indent = 0 /\ StructureLines[i].kind = "dir"
          /\ StructureLines[j].indent = 0 /\ StructureLines[j].kind = "file"
    /\ \E i \in 1..Len(StructureLines) :
          StructureLines[i].kind = "more" /\ StructureLines[i].count > 1


\* a turn of the conversation that carries tool results: a tool message
\* (OpenAI), a user turn of tool_result blocks (Anthropic), a message of
\* function responses (Gemini)
IsToolResultTurn(turn) ==
    \/ turn.role \in {"tool", "function"}
    \/ turn.role = "user" /\ turn.text = NoText

ToolResultTurns == { i \in 1..Len(messages) : IsToolResultTurn(messages[i]) }

\* C24: every tool-dispatch round appends one tool-result turn for all its
\* calls: the conversation never holds more tool-result turns than rounds
\* were entered, also when a round has several calls.
C24_OneResultTurnPerRound ==
    Cardinality(ToolResultTurns) <= rounds

\* the calls of the round in progress that have been executed, and the tool
\* results that the conversation holds after the model turn of this round
ExecutedInRound == idx - 1
MidRound == pc = "tools" /\ 0 < ExecutedInRound /\ ExecutedInRound < Len(response.calls)

\* C25: within a round no tool result is appended to the conversation before
\* every call of the round has finished: while some calls of the round are
\* still to be executed, the conversation ends with the model turn that
\* asked for them.
C25_NoPartialRoundInConversation ==
    MidRound => ~IsToolResultTurn(Last(messages))


\* C26: a run ends with a verdict only directly after a model response: the
\* step that produces the verdict is the examination of a response that the
\* model gave after the last tool-dispatch round, never a step of the tool
\* dispatch.
C26_VerdictOnlyAfterModelResponse ==
    [][ (outcome'.kind = "verdict" /\ outcome.kind # "verdict") =>
            /\ pc = "examine"
            /\ pc' = "done"
            /\ response.t = "response" /\ response.api = "ok" /\ response.present
            /\ invocations > rounds
            /\ UNCHANGED <<response, rounds, messages, toolCall, toolResult>> ]_vars

\* a run that ended with a verdict after a tool-dispatch round
C26_Witness ==
    /\ pc = "done"
    /\ outcome.kind = "verdict"
    /\ rounds >= 1
    /\ ResultsOf(messages) # <<>>


\* the opening requester turn in the conversation, and the place where it
\* belongs: first, or right after the system turn
OpeningTurns ==
    { i \in 1..Len(messages) : messages[i].role = "user" /\ messages[i].text = UserPrompt }
OpeningPlace == IF provider = "openai" THEN 2 ELSE 1

\* C27: the conversation of a run is append-only: every step leaves the turns
\* already in the conversation unchanged and in place and only adds turns at
\* the end; the opening requester turn is added once, at the start.
C27_ConversationAppendOnly ==
    [][ /\ Len(messages') >= Len(messages)
        /\ SubSeq(messages', 1, Len(messages)) = messages
        /\ messages' # <<>> => OpeningTurns' = {OpeningPlace} ]_vars

\* a conversation that grew over two tool-dispatch rounds
C27_Witness ==
    /\ rounds >= 2
    /\ Len(messages) >= 5
    /\ Cardinality(ToolResultTurns) >= 2


\* C28: once the caller's time budget has expired while the run is not
\* finished, the run starts no further iteration and invokes the model no
\* more: it ends with a failure, never with a verdict.
C28_NoIterationAfterDeadline ==
    [][ (deadline = "expired" /\ pc # "done") =>
            /\ iterations' = iterations
            /\ invocations' = invocations
            /\ outcome'.kind # "verdict" ]_vars


\* the operations of a call on the file system that only read it
ReadingOps == {"exists", "stat", "read", "readdir"}

\* C29: every Explorer operation, whether it succeeds or fails, leaves the
\* file system unchanged: a call changes no file and no directory, and all
\* it does on the file system is test, stat and read.
C29_ExplorerLeavesFileSystemUnchanged ==
    [][ /\ fs' = fs
        /\ \A k \in 1..Len(toolResult'.trace) : toolResult'.trace[k].op \in ReadingOps ]_vars

\* a call that failed after it had touched the file system, on a tree with
\* a symbolic link
C29_Witness ==
    /\ Called
    /\ toolCall.name \in ToolNames
    /\ fs.link
    /\ toolResult.error.msg # ""
    /\ toolResult.trace # <<>>


\* the line matches the query when it is tested on its own
LineMatches(line, query) == RegexTest(line, query, 0).found

\* the numbers of the first MAX_MATCHES_PER_FILE lines that match on their own
MatchingLines(lines, query) ==
    LET hits == SelectSeq([i \in 1..Len(lines) |-> i],
                          LAMBDA i : LineMatches(lines[i], query))
    IN  SubSeq(hits, 1, Min(Len(hits), MAX_MATCHES_PER_FILE))

SearchReturned ==
    /\ Called
    /\ toolCall.name = "search_code"
    /\ toolCall.arguments.t = "object"
    /\ toolResult.error.msg = ""
    /\ toolResult.result.kind = "groups"

\* C30: whether search_code reports a line of a file depends only on the
\* line, the query and the caps, never on what was matched before: every
\* file group lists the first 5 lines of its file that match the query on
\* their own, also after a file that reached the cap of 5.
C30_MatcherCarriesNoState ==
    SearchReturned =>
        \A g \in 1..Len(toolResult.result.groups) :
            LET group == toolResult.result.groups[g]
                lines == Stat(Tree(fs), group.real).lines
            IN  [k \in 1..Len(group.matches) |-> group.matches[k].line]
                    = MatchingLines(lines, toolCall.arguments.query)


\* the path names a noise directory or a place inside one
InNoiseDir(path) == \E i \in 1..Len(path) : path[i] \in SKIP_DIRS

\* the files that a list_files or search_code call reports, as absolute paths
ReportedFiles ==
    IF toolResult.result.kind = "list"
    THEN { toolResult.result.base \o toolResult.result.entries[i] :
              i \in 1..Len(toolResult.result.entries) }
    ELSE IF toolResult.result.kind = "groups"
    THEN { toolResult.result.groups[g].real : g \in 1..Len(toolResult.result.groups) }
    ELSE {}

\* C31: list_files and search_code never read inside a noise directory and
\* never report a file located in one, for every directory or path argument,
\* also one that names a noise directory or lies inside one.
C31_NoiseDirectoriesNeverRead ==
    (Called /\ toolCall.name \in {"list_files", "search_code"}) =>
        /\ \A k \in 1..Len(toolResult.trace) :
              toolResult.trace[k].op \in {"readdir", "read"} =>
                  ~InNoiseDir(toolResult.trace[k].path)
        /\ \A f \in ReportedFiles : ~InNoiseDir(f)


\* every pass of the loop body examines one response, so the responses that
\* the run has examined are as many as the passes it has begun; a response
\* beyond them was requested and never read
UnreadResponse == invocations > iterations

\* C32: every model response that a run requests is examined before the run
\* ends: the iteration-budget failure is never raised while a response that
\* the loop asked for is still unread, so no final answer holding a verdict
\* is thrown away.
C32_NoResponseLeftUnread ==
    (pc = "done" /\ outcome.kind = "failed" /\ outcome.at = "budget") =>
        ~(UnreadResponse /\ FinalValidObject)


\* the responses of the model that the conversation holds
ModelTurns == { i \in 1..Len(messages) : messages[i].role \in {"assistant", "model"} }

\* C33: every iteration that does not end the run appends the response of
\* the model (and its tool results) to the conversation, whatever stop reason
\* the model reports: whenever the run is about to invoke the model, the
\* conversation holds every response received so far, so it differs from the
\* conversation of the invocation before.
C33_EveryResponseAppended ==
    pc = "invoke" => Cardinality(ModelTurns) = invocations


\* a read_file or list_files call whose path argument fails the sandbox check
FailsSandboxCheck ==
    /\ Called
    /\ toolCall.name \in {"read_file", "list_files"}
    /\ toolCall.arguments.t = "object"
    /\ IsString(PathArgument(toolCall))
    /\ ~PassesSandboxCheck(PathJoin(workingDir, PathArgument(toolCall).v))

\* C34: in read_file and list_files the sandbox check comes before any access
\* to the file system: a call whose path argument fails the check performs no
\* existence test, stat, read or directory listing and fails with the
\* path-escape error, whether or not the place exists.
C34_SandboxCheckBeforeAccess ==
    FailsSandboxCheck =>
        /\ toolResult.trace = <<>>
        /\ toolResult.error.msg = "Path traversal not allowed"

\* a rejected read_file of a place outside the root that does not exist
C34_Witness ==
    /\ FailsSandboxCheck
    /\ toolCall.name = "read_file"
    /\ ~ExistsSync(Tree(fs), PathJoin(workingDir, PathArgument(toolCall).v))
    /\ toolResult.error.msg = "Path traversal not allowed"


\* C35: validateResponse is idempotent: validating the verdict it returned
\* returns the same summary, effortScore and issues.
C35_ValidateResponseIdempotent ==
    (vOut.done /\ ~vOut.ret.threw) =>
        LET again == validateResponse(vOut.ret.value)
        IN  /\ ~again.threw
            /\ again.value.summary = vOut.ret.value.summary
            /\ again.value.effortScore = vOut.ret.value.effortScore
            /\ again.value.issues = vOut.ret.value.issues

\* a validated object whose summary, score and issues all had to be changed
C35_Witness ==
    /\ vOut.done
    /\ ~vOut.ret.threw
    /\ vIn.t = "object"
    /\ Field(vIn, "summary") # vOut.ret.value.summary
    /\ Field(vIn, "effortScore") # vOut.ret.value.effortScore
    /\ Field(vIn, "issues") # vOut.ret.value.issues
    /\ vOut.ret.value.issues.v # <<>>


\* C36: executeAll never rejects and, once fulfilled, returns one result per
\* call, the i-th result being the result of the i-th call, in whatever order
\* the executions complete and also when some of them fail.
C36_ExecuteAllKeepsCallOrder ==
    /\ settled # "rejected"
    /\ settled = "fulfilled" =>
          /\ Len(values) = Len(allCalls)
          /\ \A i \in 1..Len(allCalls) : values[i] = execute(Tree(fs), allCalls[i])

\* a fulfilled batch of three different calls, one of them failed, whose
\* last call did not complete last
C36_Witness ==
    /\ settled = "fulfilled"
    /\ Len(allCalls) = MaxBatch
    /\ \A i, j \in 1..Len(allCalls) : i # j => allCalls[i] # allCalls[j]
    /\ \E i \in 1..Len(values) : values[i].error.msg # ""
    /\ toolCall # allCalls[Len(allCalls)]


\* the path ends with the segments of the name
EndsWithName(path, name) ==
    /\ Len(path) >= Len(name)
    /\ SubSeq(path, Len(path) - Len(name) + 1, Len(path)) = name

\* the file was asked for by the claude_md section
AskedByClaudeMd(file) ==
    /\ cfg.claude_md.enabled
    /\ cfg.claude_md.path.t = "string"
    /\ EndsWithName(file.path, cfg.claude_md.path.v)

\* C37: when context_files.enabled is false, loadConfig loads no context file
\* on behalf of the context_files section, neither a default file nor one of
\* context_files.paths, whatever claude_md.enabled is: every file it returns
\* was asked for by the claude_md section.
C37_DisabledContextFilesLoadNothing ==
    (loaded.done /\ ~cfg.context_files.enabled) =>
        \A i \in 1..Len(loaded.files) : AskedByClaudeMd(loaded.files[i])


====
